---- MODULE Spec2Model ----
(***************************************************************************)
(* Action caches of the CAS library (llvm/lib/CAS/ActionCaches.cpp): the   *)
(* in-memory and the on-disk backend, each paired with an object store,    *)
(* driven by client threads that call put and get.                         *)
(***************************************************************************)
EXTENDS Integers, Sequences, FiniteSets, TLC

\* ------------------------------------------------------------------ bounds
NumData == 2
NumThreads == 2

Data == 1..NumData
Threads == 1..NumThreads
\* The client of the single-threaded tests.
MainThread == CHOOSE t \in Threads : \A u \in Threads : t <= u

\* --------------------------------------------------------- object stores
\* The two stores of the tests (CAS1, CAS2), both in-memory.
Stores == {"CAS1", "CAS2"}

\* HasherT::hash: a digest of one byte, collision-free on Data.
hash(data) == (data * 97 + 41) % 256

Digests == {hash(d) : d \in Data}

\* ActionKey: the tests use object ids as keys.
Keys == Digests

\* An ObjectRef: InternalRef addresses the object inside the store CAS.
ObjectRef(s, i) == [CAS |-> s, InternalRef |-> i]

None == [kind |-> "None"]
Some(v) == [kind |-> "Some", value |-> v]

RECURSIVE indexOf(_, _, _)
indexOf(table, h, i) ==
  IF i > Len(table) THEN 0
  ELSE IF hash(table[i]) = h THEN i
  ELSE indexOf(table, h, i + 1)

\* ObjectStore::getReference(id): lookup without loading.
getReference(objs, s, h) ==
  LET i == indexOf(objs[s], h, 1)
  IN IF i = 0 THEN None ELSE Some(ObjectRef(s, i))

\* ObjectStore::getID(ref).getHash(): reads the object the ref points at.
getID(objs, ref) == hash(objs[ref.CAS][ref.InternalRef])

\* ObjectStore::store(refs = None, data): insert, or return the existing ref.
storeTable(table, data) ==
  IF indexOf(table, hash(data), 1) = 0 THEN Append(table, data) ELSE table

\* Every ObjectRef that exists in some store.
AllRefs(objs) == {ObjectRef(s, i) : s \in Stores, i \in 1..NumData} \cap
                 UNION {{ObjectRef(s, i) : i \in 1..Len(objs[s])} : s \in Stores}

\* ------------------------------------------------------- printing digests
HexDigits == <<"0", "1", "2", "3", "4", "5", "6", "7",
               "8", "9", "a", "b", "c", "d", "e", "f">>

\* hashToString: toHex(Hash, LowerCase = true).
hashToString(Hash) == <<HexDigits[(Hash \div 16) + 1], HexDigits[(Hash % 16) + 1]>>

\* CASID::toString: the scheme prefix followed by the hex digest.
toString(Hash) == <<"llvmcas://">> \o hashToString(Hash)

\* ----------------------------------------------------------- the caches
\* Mem1: InMemoryActionCache(CAS1).  Disk1, Disk2: OnDiskActionCache on the
\* same directory, paired with CAS1 and CAS2.
Caches == {"Mem1", "Disk1", "Disk2"}
Tries == {"mem", "disk"}

TrieOf(c) == IF c = "Mem1" THEN "mem" ELSE "disk"
CASOf(c) == IF c = "Disk2" THEN "CAS2" ELSE "CAS1"

NoEntry == 256

VARIABLES
  Objects,      \* [Stores -> Seq(Data)]: each store's objects, oldest first
  Cache,        \* [Tries -> [Keys -> Digests \cup {NoEntry}]]: the tries
  Constructed,  \* [Tries -> [Keys -> Nat]]: payload constructor invocations
  thr,          \* [Threads -> call record]: the call each thread is in
  firstPut,     \* [Tries -> [Keys -> Digests \cup {NoEntry}]]: first put called
  okPut,        \* set of <<cache, key, ref>>: put(key, ref) returned success on cache,
                \* ref being a ref of the store paired with cache
  Backend,      \* the backend the fixture was created with (the TEST_P parameter)
  Nodes,        \* [Stores -> Seq(object)]: the objects of a store with refs
  Stored,       \* [Stores -> set of store calls that returned: Refs, Data, Ref, ID]
  Checks,       \* TRUE in a build with LLVM_ENABLE_ABI_BREAKING_CHECKS
  client,       \* the last call of the object store's client and its outcome
  Impl,         \* CASOutputBackend::Impl: NoImpl, or its Refs and KindMaps
  Files,        \* [1..MaxFiles -> NoFile or the Path and Bytes of an open file]
  Created,      \* the number of files created so far
  Kept,         \* the files kept and the objects added so far, in order
  Consumed,     \* how many of Kept the getCASProxy calls so far have returned
  out,          \* the last call on the output backend and its outcome
  job,          \* the compile job in progress: its position and CompileJobCache
  ActionCache,  \* the action cache of the compile jobs: a set of Key, Value
  Disk,         \* the files on disk: a set of Path, Bytes
  Populated,    \* per key put by a job: what the job captured before the put
  Succeeded,    \* the keys of the jobs whose compilation returned success
  Jobs,         \* the number of compile jobs started so far
  Completed,    \* the keys of the caching jobs that returned 0
  Opts,         \* the DependencyScannerServiceOptions object
  Env,          \* the environment variables that are set in the process
  Services,     \* the dependency scanning services created so far, in order
  Contexts,     \* the PluginCASContext objects created so far, in order
  Plugin,       \* the plugin's side: its objects, its cache and its maps
  Called,       \* the plugin functions the last host call called, in order
  Answer,       \* the last host call on the plugin databases and its result
  other,        \* the compile job that runs beside job, and its Impl
  Deps          \* the last getFileDependencies call and what it did

\* The state of the action cache tests.
cacheVars == <<Objects, Cache, Constructed, thr, firstPut, okPut, Backend>>

\* The state of the object store with refs and of its client.
storeVars == <<Nodes, Stored, Checks, client>>

\* The state of the capturing output backend and of its client.
outVars == <<Impl, Files, Created, Kept, Consumed, out>>

\* The state of the compile jobs, their action cache and their disk.
jobVars == <<job, ActionCache, Disk, Populated, Succeeded, Jobs, Completed>>

\* The state of the dependency scanner service options and services.
scanVars == <<Opts, Env, Services>>

\* The state of the plugin databases and of the plugin behind them.
pluginVars == <<Contexts, Plugin, Called, Answer>>

\* The state of the libclang and plugin entry points.
libVars == <<scanVars, pluginVars, other, Deps>>

\* The state outside the action cache tests.
ext == <<storeVars, outVars, jobVars, libVars>>

vars == <<cacheVars, ext>>

\* The client has made no call.
NoCall == [op |-> "none"]

\* The files a run may create, and the objects a run may add.
MaxFiles == 1

\* Impl before the first call that creates it.
NoImpl == [kind |-> "NoImpl"]

\* A slot that holds no open file.
NoFile == [kind |-> "NoFile"]

\* The stores with refs are empty and have no client.
StoreUnused ==
  /\ Nodes = [s \in Stores |-> <<>>]
  /\ Stored = [s \in Stores |-> {}]
  /\ Checks = FALSE
  /\ client = NoCall

\* CASOutputBackend::CASOutputBackend(CAS): no Impl, no file, no call yet.
OutUnused ==
  /\ Impl = NoImpl
  /\ Files = [f \in 1..MaxFiles |-> NoFile]
  /\ Created = 0
  /\ Kept = <<>>
  /\ Consumed = 0
  /\ out = NoCall

\* No compile job has been started.
NoJob == [pc |-> "idle"]

\* No compile job runs, nothing is cached and the disk is empty.
JobUnused ==
  /\ job = NoJob
  /\ ActionCache = {}
  /\ Disk = {}
  /\ Populated = {}
  /\ Succeeded = {}
  /\ Jobs = 0
  /\ Completed = {}

\* A null shared_ptr to a database.
NullDB == "null"

\* DependencyScannerServiceOptions as its constructor leaves it.
DefaultOpts ==
  [ConfiguredFormat |-> "Full", CASPath |-> "", CAS |-> NullDB,
   Cache |-> NullDB]

\* No scanner option is set, no variable is set, no service exists.
ScanUnused ==
  /\ Opts = DefaultOpts
  /\ Env = {}
  /\ Services = <<>>

\* The plugin with nothing stored in it.
EmptyPlugin == [Objects |-> {}, Cache |-> {}, Maps |-> {}]

\* No call was made on the plugin databases.
NoAnswer == [op |-> "none", kind |-> "none"]

\* No plugin is loaded and no call was made on one.
PluginUnused ==
  /\ Contexts = <<>>
  /\ Plugin = EmptyPlugin
  /\ Called = <<>>
  /\ Answer = NoAnswer

\* No second compile job runs.
NoOther == [job |-> NoJob, Impl |-> NoImpl]

\* No getFileDependencies call was made.
NoDeps == [api |-> "none", Calls |-> 0]

\* The libclang and plugin entry points, nothing of them in use.
LibUnused == ScanUnused /\ PluginUnused /\ other = NoOther /\ Deps = NoDeps

\* The state outside the action cache tests, nothing of it in use.
InitExt == StoreUnused /\ OutUnused /\ JobUnused /\ LibUnused

\* The caches a fixture of backend b hands out.
CachesOf(b) == IF b = "InMemory" THEN {"Mem1"} ELSE {"Disk1", "Disk2"}

NoRet == [kind |-> "NoRet"]
Success == [kind |-> "Success"]

Idle == [pc |-> "idle", op |-> "none", cache |-> "Mem1", key |-> NoEntry,
         Result |-> ObjectRef("CAS1", 0), Prior |-> NoEntry, After |-> {},
         Observed |-> NoEntry, ret |-> NoRet]

\* --------------------------------------------------------------- errors
\* A poisoned error that prints the new value in both places.
createResultCachePoisonedError_newTwice(Key, objs, s, Output, ExistingOutput) ==
  LET OutID == toString(getID(objs, Output))
  IN [kind |-> "Error", code |-> "invalid_argument", what |-> "cache poisoned",
      Key |-> Key, New |-> OutID, Existing |-> OutID]

\* createResultCachePoisonedError(Key, CAS, Output, ExistingOutput)
createResultCachePoisonedError(Key, objs, s, Output, ExistingOutput) ==
  LET OutID == toString(getID(objs, Output))
      ExistingRef == getReference(objs, s, ExistingOutput)
      Existing == IF ExistingRef # None
                    THEN toString(getID(objs, ExistingRef.value))
                    ELSE hashToString(ExistingOutput)
  IN [kind |-> "Error", code |-> "invalid_argument", what |-> "cache poisoned",
      Key |-> Key, New |-> OutID, Existing |-> Existing]

\* createResultCacheUnknownObjectError(Key, Hash)
createResultCacheUnknownObjectError(Key, Hash) ==
  [kind |-> "Error", code |-> "no_such_device_or_address",
   what |-> "does not exist in CAS", Key |-> Key, Hash |-> Hash]

\* ------------------------------------------------------------- the trie
\* HashMappedTrie::find / OnDiskHashMappedTrie::find: a read-only walk.
find(trie, Key) == trie[Key]

\* An insertLazy that overwrites an existing payload.
insertLazy_overwrite(trie, Key, payload) == [trie EXCEPT ![Key] = payload]

\* insertLazy, the publication: insert the payload, or keep the existing one.
insertLazy(trie, Key, payload) ==
  IF trie[Key] = NoEntry THEN [trie EXCEPT ![Key] = payload] ELSE trie

\* A constructor that publishes the payload with only its high half written.
ValueConstructor_partial(Expected) == (Expected \div 16) * 16

\* A constructor that leaves the payload default-constructed.
ValueConstructor_default(Expected) == hash(1)

\* The constructor putImpl hands to insertLazy: the payload is a copy of
\* Expected (ValueConstructor.emplace(Expected); new (...) DataT{Expected}).
ValueConstructor(Expected) == Expected

\* ------------------------------------------------------------ getImpl
\* A getImpl that resolves the key itself when the trie has no entry.
InMemoryActionCache_getImpl_keyAsValue(objs, s, Key, Found) ==
  IF Found = NoEntry THEN getReference(objs, s, Key)
  ELSE getReference(objs, s, Found)

\* InMemoryActionCache::getImpl, after Cache.find(Key) returned Found.  It
\* returns the Optional of getReference as it is; the statements that follow
\* that return in the source are never executed.
InMemoryActionCache_getImpl(objs, s, Key, Found) ==
  IF Found = NoEntry THEN None
  ELSE getReference(objs, s, Found)

\* A getImpl that returns the lookup of the store unchecked.
OnDiskActionCache_getImpl_unchecked(objs, s, Key, Found) ==
  IF Found = NoEntry THEN None
  ELSE getReference(objs, s, Found)

\* OnDiskActionCache::getImpl, after Cache.find(Key) returned Found.
OnDiskActionCache_getImpl(objs, s, Key, Found) ==
  IF Found = NoEntry THEN None
  ELSE LET Out == getReference(objs, s, Found)
       IN IF Out = None
            THEN createResultCacheUnknownObjectError(hashToString(Key),
                                                     hashToString(Found))
            ELSE Out

getImpl(c, objs, Key, Found) ==
  IF c = "Mem1" THEN InMemoryActionCache_getImpl(objs, CASOf(c), Key, Found)
  ELSE OnDiskActionCache_getImpl(objs, CASOf(c), Key, Found)

\* ------------------------------------------------------------ putImpl
\* A putImpl that does not compare Expected with Observed.
InMemoryActionCache_putImpl_noCompare(objs, s, Key, Result, Observed) == Success

\* InMemoryActionCache::putImpl, after Cache.insertLazy returned Observed.
InMemoryActionCache_putImpl(objs, s, Key, Result, Observed) ==
  LET Expected == getID(objs, Result)
  IN IF Expected = Observed THEN Success
     ELSE createResultCachePoisonedError(hashToString(Key), objs, s, Result, Observed)

\* A putImpl that reports an unresolvable existing value as unknown object.
OnDiskActionCache_putImpl_danglingFirst(objs, s, Key, Result, Observed) ==
  IF getID(objs, Result) = Observed THEN Success
  ELSE IF getReference(objs, s, Observed) = None
    THEN createResultCacheUnknownObjectError(hashToString(Key), hashToString(Observed))
    ELSE createResultCachePoisonedError(hashToString(Key), objs, s, Result, Observed)

\* A putImpl that returns success whatever insertLazy observed.
OnDiskActionCache_putImpl_noCompare(objs, s, Key, Result, Observed) == Success

\* A putImpl that compares refs of the paired store instead of digests.
OnDiskActionCache_putImpl_byRef(objs, s, Key, Result, Observed) ==
  IF getReference(objs, s, Observed) = Some(Result) THEN Success
  ELSE createResultCachePoisonedError(hashToString(Key), objs, s, Result, Observed)

\* OnDiskActionCache::putImpl, after Cache.insertLazy returned Observed.
OnDiskActionCache_putImpl(objs, s, Key, Result, Observed) ==
  LET Expected == getID(objs, Result)
  IN IF Expected = Observed THEN Success
     ELSE createResultCachePoisonedError(hashToString(Key), objs, s, Result, Observed)

putImpl(c, objs, Key, Result, Observed) ==
  IF c = "Mem1" THEN InMemoryActionCache_putImpl(objs, CASOf(c), Key, Result, Observed)
  ELSE OnDiskActionCache_putImpl(objs, CASOf(c), Key, Result, Observed)

\* ------------------------------------------------------------------ Init
Init ==
  /\ Objects = [s \in Stores |-> <<>>]
  /\ Cache = [tr \in Tries |-> [k \in Keys |-> NoEntry]]
  /\ Constructed = [tr \in Tries |-> [k \in Keys |-> 0]]
  /\ thr = [t \in Threads |-> Idle]
  /\ firstPut = [tr \in Tries |-> [k \in Keys |-> NoEntry]]
  /\ okPut = {}
  /\ Backend \in {"InMemory", "OnDisk"}
  /\ InitExt

\* --------------------------------------------------------------- actions
\* No assertion has aborted the process.
Running == \A t \in Threads : thr[t].pc # "aborted"

\* ObjectStore::createProxy(None, data): store the object.
Store(s, data) ==
  /\ Running
  /\ Objects' = [Objects EXCEPT ![s] = storeTable(@, data)]
  /\ UNCHANGED <<Cache, Constructed, thr, firstPut, okPut, Backend, ext>>

\* put(Key, Result) is called: putImpl computes Expected from the ref.
PutCall(t, c, Key, Result) ==
  /\ Running
  /\ thr[t].pc = "idle"
  /\ c \in CachesOf(Backend)
  /\ thr' = [thr EXCEPT ![t] =
       [Idle EXCEPT !.pc = "insertLazy", !.op = "put", !.cache = c, !.key = Key,
                    !.Result = Result, !.Prior = Cache[TrieOf(c)][Key]]]
  /\ firstPut' = IF firstPut[TrieOf(c)][Key] = NoEntry
                   THEN [firstPut EXCEPT ![TrieOf(c)][Key] = getID(Objects, Result)]
                   ELSE firstPut
  /\ UNCHANGED <<Objects, Cache, Constructed, okPut, Backend, ext>>

\* A checked build (LLVM_ENABLE_ABI_BREAKING_CHECKS): a ref of another store
\* fails the assertion of getInternalRef and the process aborts.
PutCallChecked(t, c, Key, Result) ==
  /\ Running
  /\ thr[t].pc = "idle"
  /\ c \in CachesOf(Backend)
  /\ Result.CAS # CASOf(c)
  /\ thr' = [thr EXCEPT ![t] = [Idle EXCEPT !.pc = "aborted"]]
  /\ UNCHANGED <<Objects, Cache, Constructed, firstPut, okPut, Backend, ext>>

\* insertLazy walks to the insertion point.
InsertLazyWalk(t) ==
  /\ Running
  /\ thr[t].pc = "insertLazy"
  /\ LET slot == Cache[TrieOf(thr[t].cache)][thr[t].key]
     IN thr' = [thr EXCEPT ![t] =
          IF slot = NoEntry THEN [@ EXCEPT !.pc = "cas"]
          ELSE [@ EXCEPT !.pc = "compare", !.Observed = slot]]
  /\ UNCHANGED <<Objects, Cache, Constructed, firstPut, okPut, Backend, ext>>

\* insertLazy tries to publish: the winner's constructor runs once, a loser
\* re-reads the winner's payload.
InsertLazyCAS(t) ==
  /\ Running
  /\ thr[t].pc = "cas"
  /\ LET tr == TrieOf(thr[t].cache)
         k == thr[t].key
         Expected == getID(Objects, thr[t].Result)
         after == insertLazy(Cache[tr], k, ValueConstructor(Expected))
     IN /\ Cache' = [Cache EXCEPT ![tr] = after]
        /\ Constructed' = IF Cache[tr][k] = NoEntry
                            THEN [Constructed EXCEPT ![tr][k] = @ + 1]
                            ELSE Constructed
        /\ thr' = [thr EXCEPT ![t].pc = "compare", ![t].Observed = after[k]]
  /\ UNCHANGED <<Objects, firstPut, okPut, Backend, ext>>

\* putImpl compares Expected with Observed and returns.
PutReturn(t) ==
  /\ Running
  /\ thr[t].pc = "compare"
  /\ LET r == putImpl(thr[t].cache, Objects, thr[t].key, thr[t].Result, thr[t].Observed)
     IN /\ thr' = [thr EXCEPT ![t].pc = "idle", ![t].ret = r]
        /\ okPut' = IF r = Success /\ thr[t].Result.CAS = CASOf(thr[t].cache)
                      THEN okPut \cup {<<thr[t].cache, thr[t].key, thr[t].Result>>}
                      ELSE okPut
  /\ UNCHANGED <<Objects, Cache, Constructed, firstPut, Backend, ext>>

\* get(Key) is called.
GetCall(t, c, Key) ==
  /\ Running
  /\ thr[t].pc = "idle"
  /\ c \in CachesOf(Backend)
  /\ thr' = [thr EXCEPT ![t] =
       [Idle EXCEPT !.pc = "find", !.op = "get", !.cache = c, !.key = Key,
                    !.Prior = Cache[TrieOf(c)][Key],
                    !.After = {<<p[1], p[3]>> : p \in
                                 {q \in okPut : TrieOf(q[1]) = TrieOf(c) /\ q[2] = Key}}]]
  /\ UNCHANGED <<Objects, Cache, Constructed, firstPut, okPut, Backend, ext>>

\* getImpl: Cache.find(Key).
GetFind(t) ==
  /\ Running
  /\ thr[t].pc = "find"
  /\ thr' = [thr EXCEPT ![t].pc = "getReference",
                        ![t].Observed = find(Cache[TrieOf(thr[t].cache)], thr[t].key)]
  /\ UNCHANGED <<Objects, Cache, Constructed, firstPut, okPut, Backend, ext>>

\* getImpl: resolve the value in the paired store and return.
GetReturn(t) ==
  /\ Running
  /\ thr[t].pc = "getReference"
  /\ thr' = [thr EXCEPT ![t].pc = "idle",
                        ![t].ret = getImpl(thr[t].cache, Objects, thr[t].key,
                                           thr[t].Observed)]
  /\ UNCHANGED <<Objects, Cache, Constructed, firstPut, okPut, Backend, ext>>

\* A client calls put or get on one of the keys K.
Call(t, K) ==
  \/ \E c \in Caches, k \in K, r \in AllRefs(Objects) : PutCall(t, c, k, r)
  \/ \E c \in Caches, k \in K, r \in AllRefs(Objects) : PutCallChecked(t, c, k, r)
  \/ \E c \in Caches, k \in K : GetCall(t, c, k)

\* A call in progress takes its next step.
Step(t) ==
  \/ InsertLazyWalk(t)
  \/ InsertLazyCAS(t)
  \/ PutReturn(t)
  \/ GetFind(t)
  \/ GetReturn(t)

\* One client: any sequence of stores, puts and gets.
Next ==
  \/ \E s \in Stores, d \in Data : Store(s, d)
  \/ Call(MainThread, Keys)
  \/ Step(MainThread)

Spec == Init /\ [][Next]_vars

\* ------------------------------------------------- concurrent clients
\* The state after the set-up of ActionCacheResultInvalid: CAS1 holds every
\* object, CAS2 holds the object of data 1; the caches are empty.
InitRace ==
  /\ Objects = [s \in Stores |-> IF s = "CAS1" THEN [i \in 1..NumData |-> i] ELSE <<1>>]
  /\ Cache = [tr \in Tries |-> [k \in Keys |-> NoEntry]]
  /\ Constructed = [tr \in Tries |-> [k \in Keys |-> 0]]
  /\ thr = [t \in Threads |-> Idle]
  /\ firstPut = [tr \in Tries |-> [k \in Keys |-> NoEntry]]
  /\ okPut = {}
  /\ Backend \in {"InMemory", "OnDisk"}
  /\ InitExt

\* The key the concurrent clients race on.
RaceKey == hash(1)

\* NumThreads clients, each making one call on RaceKey.
NextRace ==
  \E t \in Threads :
    \/ thr[t].op = "none" /\ Call(t, {RaceKey})
    \/ Step(t)

SpecRace == InitRace /\ [][NextRace]_vars

\* ------------------------------------------------ object stores with refs
\* The objects a store may hold, over all the stores of a run.
MaxObjects == 3

\* The data of the objects the tests create; data is a sequence of bytes.
Contents == {<<"1">>, <<"2">>}

\* The hash of an object: BLAKE3 over the digests of its refs and its data.
\* The hash is taken to be free of collisions: a digest is represented by the
\* term it is the hash of.
hashNode(RefIDs, Bytes) == [Refs |-> RefIDs, Data |-> Bytes]

\* ObjectStore::getID(Ref): the digest of the object at internal ref i.
RECURSIVE ObjectStore_getID(_, _)
ObjectStore_getID(table, i) ==
  hashNode([j \in 1..Len(table[i].Refs) |-> ObjectStore_getID(table, table[i].Refs[j])],
           table[i].Data)

\* The index of digests of a store: the internal ref of ID, 0 if absent.
RECURSIVE lookup(_, _, _)
lookup(table, ID, i) ==
  IF i > Len(table) THEN 0
  ELSE IF ObjectStore_getID(table, i) = ID THEN i
  ELSE lookup(table, ID, i + 1)

\* A getReference that answers with the oldest object of the store.
ObjectStore_getReference_first(table, s, ID) ==
  IF Len(table) = 0 THEN None ELSE Some(ObjectRef(s, 1))

\* ObjectStore::getReference(ID): Some(ref) if the store holds ID, else None.
ObjectStore_getReference(table, s, ID) ==
  LET i == lookup(table, ID, 1)
  IN IF i = 0 THEN None ELSE Some(ObjectRef(s, i))

\* A store that appends a copy whatever the store holds.
ObjectStore_store_append(table, s, Refs, Bytes) ==
  [table |-> Append(table, [Refs |-> Refs, Data |-> Bytes]),
   Ref |-> ObjectRef(s, Len(table) + 1)]

\* ObjectStore::store(Refs, Data), Refs being internal refs of the store: the
\* table after the call and the ref returned.
ObjectStore_store(table, s, Refs, Bytes) ==
  LET ID == hashNode([j \in 1..Len(Refs) |-> ObjectStore_getID(table, Refs[j])], Bytes)
      i == lookup(table, ID, 1)
  IN IF i # 0 THEN [table |-> table, Ref |-> ObjectRef(s, i)]
     ELSE [table |-> Append(table, [Refs |-> Refs, Data |-> Bytes]),
           Ref |-> ObjectRef(s, Len(table) + 1)]

\* The outcome of a call that returned v.
Value(v) == [kind |-> "Value", value |-> v]

\* The outcome of a call that failed an assertion: the process aborts.
Abort(what) == [kind |-> "Abort", what |-> what]

\* A getInternalRef without the assertion.
getInternalRef_unchecked(Ref, ExpectedCAS, checks) == Value(Ref.InternalRef)

\* ReferenceBase::getInternalRef(ExpectedCAS)
getInternalRef(Ref, ExpectedCAS, checks) ==
  IF checks /\ Ref.CAS # ExpectedCAS
    THEN Abort("Extracting reference for the wrong CAS")
    ELSE Value(Ref.InternalRef)

\* ReferenceBase::hasSameInternalRef(RHS), behind operator== of ObjectRef.
hasSameInternalRef(LHS, RHS, checks) ==
  IF checks /\ LHS.CAS # RHS.CAS
    THEN Abort("Cannot compare across CAS instances")
    ELSE Value(LHS.InternalRef = RHS.InternalRef)

\* The refs of the objects store s holds.
RefsOf(s) == {ObjectRef(s, i) : i \in 1..Len(Nodes[s])}

\* The lists of refs a client passes to store: none or one of R.
RefLists(R) == {<<>>} \cup {<<a>> : a \in R}

\* The digests of the objects the stores hold.
KnownIDs ==
  UNION {{ObjectStore_getID(Nodes[s], i) : i \in 1..Len(Nodes[s])} : s \in Stores}

\* The action cache tests are not running.
CacheUnused ==
  /\ Objects = [s \in Stores |-> <<>>]
  /\ Cache = [tr \in Tries |-> [k \in Keys |-> NoEntry]]
  /\ Constructed = [tr \in Tries |-> [k \in Keys |-> 0]]
  /\ thr = [t \in Threads |-> Idle]
  /\ firstPut = [tr \in Tries |-> [k \in Keys |-> NoEntry]]
  /\ okPut = {}
  /\ Backend = "InMemory"

\* Two empty stores, in a build with or without the checks.
InitStore ==
  /\ CacheUnused
  /\ Nodes = [s \in Stores |-> <<>>]
  /\ Stored = [s \in Stores |-> {}]
  /\ Checks \in BOOLEAN
  /\ client = NoCall
  /\ OutUnused
  /\ JobUnused
  /\ LibUnused

\* No assertion has aborted the client of the stores.
ClientRunning == IF client.op = "none" THEN TRUE ELSE client.ret.kind # "Abort"

\* The number of objects a call may still add.
Room ==
  LET RECURSIVE total(_)
      total(S) == IF S = {} THEN 0
                  ELSE LET s == CHOOSE x \in S : TRUE
                       IN Len(Nodes[s]) + total(S \ {s})
  IN MaxObjects - total(Stores)

\* The client stores (Refs, Bytes) in store s, Refs being refs of s.
StoreObject(s, Refs, Bytes) ==
  /\ ClientRunning
  /\ LET internal == [j \in 1..Len(Refs) |-> getInternalRef(Refs[j], s, Checks).value]
         r == ObjectStore_store(Nodes[s], s, internal, Bytes)
     IN /\ Len(r.table) - Len(Nodes[s]) <= Room
        /\ Nodes' = [Nodes EXCEPT ![s] = r.table]
        /\ Stored' = [Stored EXCEPT ![s] =
                        @ \cup {[Refs |-> internal, Data |-> Bytes, Ref |-> r.Ref,
                                 ID |-> ObjectStore_getID(r.table, r.Ref.InternalRef)]}]
        /\ client' = [op |-> "store", CAS |-> s, ret |-> Value(r.Ref)]
  /\ UNCHANGED <<Checks, cacheVars, outVars, jobVars, libVars>>

\* The client asks store s for the ref of ID.
GetReference(s, ID) ==
  /\ ClientRunning
  /\ client' = [op |-> "getReference", CAS |-> s, ID |-> ID,
                ret |-> Value(ObjectStore_getReference(Nodes[s], s, ID))]
  /\ UNCHANGED <<Nodes, Stored, Checks, cacheVars, outVars, jobVars, libVars>>

\* The client extracts the internal ref of Ref for store s.
GetInternalRef(Ref, s) ==
  /\ ClientRunning
  /\ client' = [op |-> "getInternalRef", CAS |-> s, Ref |-> Ref,
                ret |-> getInternalRef(Ref, s, Checks)]
  /\ UNCHANGED <<Nodes, Stored, Checks, cacheVars, outVars, jobVars, libVars>>

\* The client compares two refs.
Equals(LHS, RHS) ==
  /\ ClientRunning
  /\ client' = [op |-> "equals", LHS |-> LHS, RHS |-> RHS,
                ret |-> hasSameInternalRef(LHS, RHS, Checks)]
  /\ UNCHANGED <<Nodes, Stored, Checks, cacheVars, outVars, jobVars, libVars>>

NextStore ==
  \/ \E s \in Stores, d \in Contents :
       \E Refs \in RefLists(RefsOf(s)) : StoreObject(s, Refs, d)
  \/ \E s \in Stores, ID \in KnownIDs : GetReference(s, ID)
  \/ \E s, s2 \in Stores : \E Ref \in RefsOf(s2) : GetInternalRef(Ref, s)
  \/ \E s, s2 \in Stores : \E LHS \in RefsOf(s), RHS \in RefsOf(s2) : Equals(LHS, RHS)

SpecStore == InitStore /\ [][NextStore]_vars

\* ---------------------------------------------- the capturing backend
\* The store the backend was constructed with.
OutCAS == "CAS1"

\* The paths the client creates files at.
Paths == {<<"a.o">>, <<"a.d">>}

\* The kind names the client maps paths to.
Kinds == {<<"<output>">>, <<"<dependencies>">>}

\* The bytes the client writes to a file.
Chunks == {"x"}

\* The longest content of a file, in bytes.
MaxBytes == 1

\* The kind mappings a run may add.
MaxKindMaps == 2

\* An error returned by the store.
StoreError == [kind |-> "Error", what |-> "store failed"]

\* A tryRemapPath that knows no kind.
tryRemapPath_literal(KindMaps, Path) == Path

\* PrivateImpl::tryRemapPath: the kind of the first mapping of Path, or Path.
tryRemapPath(KindMaps, Path) ==
  LET RECURSIVE from(_)
      from(i) == IF i > Len(KindMaps) THEN Path
                 ELSE IF KindMaps[i].Path = Path THEN KindMaps[i].Kind
                 ELSE from(i + 1)
  IN from(1)

\* if (!Impl) Impl = std::make_unique<PrivateImpl>();
makeImpl(impl) == IF impl = NoImpl THEN [Refs |-> <<>>, KindMaps |-> <<>>] ELSE impl

\* ObjectStore::createProxy(Refs, Data) on the store of the backend.
createProxy(table, Refs, Bytes) ==
  ObjectStore_store(table, OutCAS,
                    [j \in 1..Len(Refs) |-> getInternalRef(Refs[j], OutCAS, FALSE).value],
                    Bytes)

\* The slots that hold an open file.
OpenFiles == {f \in 1..MaxFiles : Files[f] # NoFile}

\* The data of the object the client stored itself and adds by ref.
ClientData == <<"deps">>

\* The refs of the objects the client stored itself.
ClientObjects == {r \in RefsOf(OutCAS) : Nodes[OutCAS][r.InternalRef].Data = ClientData}

\* The state before the first call on the backend: the store holds the
\* object of the client.
InitOut ==
  /\ CacheUnused
  /\ Nodes = [s \in Stores |-> IF s = OutCAS
                                 THEN <<[Refs |-> <<>>, Data |-> ClientData]>>
                                 ELSE <<>>]
  /\ Stored = [s \in Stores |-> {}]
  /\ Checks = FALSE
  /\ client = NoCall
  /\ OutUnused
  /\ JobUnused
  /\ LibUnused

\* CASOutputBackend::createFileImpl(ResolvedPath): a CASOutputFile on Path.
createFileImpl(ResolvedPath) ==
  /\ Created < MaxFiles
  /\ \E f \in 1..MaxFiles :
       /\ Files[f] = NoFile
       /\ \A g \in 1..MaxFiles : g < f => Files[g] # NoFile
       /\ Files' = [Files EXCEPT ![f] = [Path |-> ResolvedPath, Bytes |-> <<>>]]
  /\ Impl' = makeImpl(Impl)
  /\ Created' = Created + 1
  /\ out' = [op |-> "createFile", ret |-> Success]
  /\ UNCHANGED <<Kept, Consumed, cacheVars, storeVars, jobVars, libVars>>

\* The client writes a byte to the stream of file f.
Write(f, b) ==
  /\ f \in OpenFiles
  /\ Len(Files[f].Bytes) < MaxBytes
  /\ Files' = [Files EXCEPT ![f].Bytes = Append(@, b)]
  /\ UNCHANGED <<Impl, Created, Kept, Consumed, out, cacheVars, storeVars, jobVars, libVars>>

\* The name the kept file or added object of path Path is to be stored
\* under: the kind of the first mapping of Path, if there is one.
ExpectedName(KindMaps, Path) ==
  LET I == {i \in 1..Len(KindMaps) : KindMaps[i].Path = Path}
  IN IF I = {} THEN Path
     ELSE KindMaps[CHOOSE i \in I : \A j \in I : i <= j].Kind

\* The OnKeep closure of createFileImpl, both createProxy succeeding: Impl
\* and the store after it; NameTable is the store once the name is stored.
OnKeep(impl, table, Path, Bytes) ==
  LET Name == tryRemapPath(impl.KindMaps, Path)
      NameBlob == createProxy(table, <<>>, Name)
      BytesBlob == createProxy(NameBlob.table, <<>>, Bytes)
  IN [Impl |-> [impl EXCEPT !.Refs = @ \o <<NameBlob.Ref, BytesBlob.Ref>>],
      table |-> BytesBlob.table,
      NameTable |-> NameBlob.table]

\* CASOutputFile::keep(): OnKeep(Path, Bytes); failName and failBytes say
\* which createProxy returned an error.
keep(f, outcome) ==
  /\ f \in OpenFiles
  /\ LET Path == Files[f].Path
         Bytes == Files[f].Bytes
         kept == OnKeep(Impl, Nodes[OutCAS], Path, Bytes)
     IN \/ /\ outcome = "failName"
           /\ out' = [op |-> "keep", ret |-> StoreError]
           /\ UNCHANGED <<Nodes, Impl, Kept>>
        \/ /\ outcome = "failBytes"
           /\ Nodes' = [Nodes EXCEPT ![OutCAS] = kept.NameTable]
           /\ out' = [op |-> "keep", ret |-> StoreError]
           /\ UNCHANGED <<Impl, Kept>>
        \/ /\ outcome = "ok"
           /\ Nodes' = [Nodes EXCEPT ![OutCAS] = kept.table]
           /\ Impl' = kept.Impl
           /\ Kept' = Append(Kept, [kind |-> "file",
                                    Name |-> ExpectedName(Impl.KindMaps, Path),
                                    Bytes |-> Bytes])
           /\ out' = [op |-> "keep", ret |-> Success]
  /\ Files' = [Files EXCEPT ![f] = NoFile]
  /\ UNCHANGED <<Created, Consumed, cacheVars, Stored, Checks, client, jobVars, libVars>>

\* CASOutputFile::discard(): the bytes are dropped.
discard(f) ==
  /\ f \in OpenFiles
  /\ Files' = [Files EXCEPT ![f] = NoFile]
  /\ out' = [op |-> "discard", ret |-> Success]
  /\ UNCHANGED <<Impl, Created, Kept, Consumed, cacheVars, storeVars, jobVars, libVars>>

\* An addObject that appends the object without its name.
CASOutputBackend_addObject_objectOnly(impl, table, Name, Object) ==
  [Impl |-> [makeImpl(impl) EXCEPT !.Refs = Append(@, Object)],
   table |-> table]

\* CASOutputBackend::addObject(Name, Object), createProxy succeeding: Impl and
\* the store after it.
CASOutputBackend_addObject(impl, table, Name, Object) ==
  LET Remapped == tryRemapPath(makeImpl(impl).KindMaps, Name)
      NameBlob == createProxy(table, <<>>, Remapped)
  IN [Impl |-> [makeImpl(impl) EXCEPT !.Refs = @ \o <<NameBlob.Ref, Object>>],
      table |-> NameBlob.table]

\* The client calls addObject(Name, Object); failName says createProxy
\* returned an error.
addObject(Name, Object, outcome) ==
  /\ Cardinality({i \in 1..Len(Kept) : Kept[i].kind = "object"}) < MaxFiles
  /\ LET added == CASOutputBackend_addObject(Impl, Nodes[OutCAS], Name, Object)
     IN \/ /\ outcome = "failName"
           /\ Impl' = makeImpl(Impl)
           /\ out' = [op |-> "addObject", ret |-> StoreError]
           /\ UNCHANGED <<Nodes, Kept>>
        \/ /\ outcome = "ok"
           /\ Nodes' = [Nodes EXCEPT ![OutCAS] = added.table]
           /\ Impl' = added.Impl
           /\ Kept' = Append(Kept, [kind |-> "object",
                                    Name |-> ExpectedName(makeImpl(Impl).KindMaps, Name),
                                    Object |-> Object])
           /\ out' = [op |-> "addObject", ret |-> Success]
  /\ UNCHANGED <<Files, Created, Consumed, cacheVars, Stored, Checks, client, jobVars, libVars>>

\* CASOutputBackend::addKindMap(Kind, Path): Impl after it.
CASOutputBackend_addKindMap(impl, Kind, Path) ==
  [makeImpl(impl) EXCEPT !.KindMaps = Append(@, [Kind |-> Kind, Path |-> Path])]

\* The client calls addKindMap(Kind, Path).
addKindMap(Kind, Path) ==
  /\ Len(makeImpl(Impl).KindMaps) < MaxKindMaps
  /\ Impl' = CASOutputBackend_addKindMap(Impl, Kind, Path)
  /\ out' = [op |-> "addKindMap", ret |-> Success]
  /\ UNCHANGED <<Files, Created, Kept, Consumed, cacheVars, storeVars, jobVars, libVars>>

\* A getCASProxy that takes the kind mappings with the refs.
MovedRefs_withKindMaps(impl) == [impl EXCEPT !.Refs = <<>>, !.KindMaps = <<>>]

\* A getCASProxy that leaves the refs in the backend.
MovedRefs_copied(impl) == impl

\* std::swap(MovedRefs, Impl->Refs): Impl after the swap.
MovedRefs(impl) == [impl EXCEPT !.Refs = <<>>]

\* CASOutputBackend::getCASProxy(), createProxy succeeding: Impl and the
\* store after it, and the ref of the object returned.
CASOutputBackend_getCASProxy(impl, table) ==
  LET Proxy == createProxy(table, IF impl = NoImpl THEN <<>> ELSE impl.Refs, <<>>)
  IN [Impl |-> IF impl = NoImpl THEN impl ELSE MovedRefs(impl),
      table |-> Proxy.table,
      Ref |-> Proxy.Ref]

\* The client calls getCASProxy(); fail says createProxy returned an error.
\* From is the number of kept files and added objects earlier calls returned.
getCASProxy(outcome) ==
  /\ LET got == CASOutputBackend_getCASProxy(Impl, Nodes[OutCAS])
     IN /\ Impl' = got.Impl
        /\ \/ /\ outcome = "fail"
              /\ out' = [op |-> "getCASProxy", From |-> Consumed, ret |-> StoreError]
              /\ UNCHANGED Nodes
           \/ /\ outcome = "ok"
              /\ Nodes' = [Nodes EXCEPT ![OutCAS] = got.table]
              /\ out' = [op |-> "getCASProxy", From |-> Consumed,
                         ret |-> Value(got.Ref)]
  /\ Consumed' = Len(Kept)
  /\ UNCHANGED <<Files, Created, Kept, cacheVars, Stored, Checks, client, jobVars, libVars>>

NextOut ==
  \/ \E Path \in Paths : createFileImpl(Path)
  \/ \E f \in 1..MaxFiles, b \in Chunks : Write(f, b)
  \/ \E f \in 1..MaxFiles, outcome \in {"ok", "failName", "failBytes"} : keep(f, outcome)
  \/ \E f \in 1..MaxFiles : discard(f)
  \/ \E Name \in Paths \cup Kinds, Object \in ClientObjects,
        outcome \in {"ok", "failName"} : addObject(Name, Object, outcome)
  \/ \E Kind \in Kinds, Path \in Paths : addKindMap(Kind, Path)
  \/ \E outcome \in {"ok", "fail"} : getCASProxy(outcome)

SpecOut == InitOut /\ [][NextOut]_vars

\* ------------------------------------------------ the compile-job cache
\* The compile jobs a run starts, one after the other, on one store, one
\* action cache and one disk.
MaxJobs == 2

\* The translation units compiled: the semantic input of a job.
Sources == {"s1", "s2"}

MainOutputKindName == <<"<output>">>
SerializedDiagnosticsKindName == <<"<serial-diags>">>
DependenciesOutputKindName == <<"<dependencies>">>

\* CompileJobCache::getAllOutputKinds()
AllOutputKinds == <<"MainOutput", "SerializedDiagnostics", "Dependencies">>

\* CompileJobCache::getOutputKindName(Kind)
getOutputKindName(Kind) ==
  CASE Kind = "MainOutput" -> MainOutputKindName
    [] Kind = "SerializedDiagnostics" -> SerializedDiagnosticsKindName
    [] Kind = "Dependencies" -> DependenciesOutputKindName

\* A getOutputKindForName that matches no kind name.
getOutputKindForName_none(Name) == None

\* CompileJobCache::getOutputKindForName(Name)
getOutputKindForName(Name) ==
  IF Name = MainOutputKindName THEN Some("MainOutput")
  ELSE IF Name = SerializedDiagnosticsKindName THEN Some("SerializedDiagnostics")
  ELSE IF Name = DependenciesOutputKindName THEN Some("Dependencies")
  ELSE None

\* CompileJobCache::getPathForOutputKind(Kind), j being the CompileJobCache.
getPathForOutputKind(j, Kind) ==
  CASE Kind = "MainOutput" -> j.OutputFile
    [] Kind = "SerializedDiagnostics" -> j.SerialDiagsFile
    [] Kind = "Dependencies" -> j.DependenciesFile

\* The invocations of the compile jobs: whether caching is on, the source,
\* and the paths of the outputs, <<>> being the empty path.
Invocations ==
  [CacheCompileJob : BOOLEAN,
   Src : Sources,
   OutputFile : {<<"a.o">>, <<"b.o">>},
   DiagnosticSerializationFile : {<<>>, <<"a.dia">>},
   DependencyOutputFile : {<<>>, <<"a.d">>}]

\* No replayCachedResult call has been made by the job.
NoReplay == [called |-> FALSE, JustComputedResult |-> FALSE, Opened |-> FALSE,
             Writes |-> <<>>, Printed |-> <<>>]

\* The CompileJobCache of cc1_main as constructed, with the invocation as
\* given on the command line, the frontend options of the live invocation
\* that initialize rewrites (FrontendOpts; timestamps are on by default), what
\* the process printed (Remarks, Stderr), how often it ran the frontend, its
\* replayCachedResult call, and what its output backend captured.
CompileJob(Invocation) ==
  [pc |-> "initialize", Invocation |-> Invocation,
   CacheCompileJob |-> FALSE,
   OutputFile |-> <<>>, SerialDiagsFile |-> <<>>, DependenciesFile |-> <<>>,
   ResultCacheKey |-> None, ResultDiags |-> <<>>, SerialDiagsBuf |-> <<>>,
   SerialDiagsOutput |-> None, DependenciesOutput |-> None,
   Lookup |-> "none", Failed |-> "none", Result |-> None, Hit |-> FALSE, Success |-> FALSE,
   Status |-> None,
   Remarks |-> <<>>, Stderr |-> <<>>, Executed |-> 0,
   Replay |-> NoReplay, Captured |-> <<>>,
   FrontendOpts |-> [CacheCompileJob |-> Invocation.CacheCompileJob,
                     IncludeTimestamps |-> TRUE]]

\* The job is between initialize and the return of cc1_main.
JobRunning == job.pc \notin {"idle", "done", "aborted", "fatal"}

\* An exit status that is 0 whatever the frontend returned.
ExitStatus_zero(success) == 0

\* return !Success: the exit status of a job whose frontend ran.
ExitStatus(success) == IF success THEN 0 ELSE 1

\* cc1_main returns Status.
Return(j, Status) == [j EXCEPT !.pc = "done", !.Status = Some(Status)]

\* The cc1 command line of an invocation, as hashed into the key.
cc1Args(Invocation) ==
  <<"-cc1", Invocation.Src, "-o">> \o Invocation.OutputFile \o
  <<"--serialize-diagnostics">> \o Invocation.DiagnosticSerializationFile \o
  <<"-dependency-file">> \o Invocation.DependencyOutputFile

\* The canonical form of an invocation: every path that names the place of
\* an output is stripped.
canonicalize(Invocation) ==
  [Invocation EXCEPT !.OutputFile = <<"-">>,
                     !.DiagnosticSerializationFile = <<>>,
                     !.DependencyOutputFile = <<"-">>]

\* A key derived from the invocation as given, paths included.
createCompileJobCacheKey_raw(Invocation) == hashNode(<<>>, cc1Args(Invocation))

\* createCompileJobCacheKey: the digest of the canonical invocation.
createCompileJobCacheKey(Invocation) ==
  hashNode(<<>>, cc1Args(canonicalize(Invocation)))

\* The keys of the compile jobs.
JobKeys == {createCompileJobCacheKey(i) : i \in Invocations}

\* A get that finds nothing.
ActionCache_get_none(cache, table, Key) == None

\* ActionCache::get(Key) on the cache of the jobs: None without an entry,
\* an error when the store does not hold the value, else the ref of the value.
ActionCache_get(cache, table, Key) ==
  IF \A e \in cache : e.Key # Key THEN None
  ELSE LET Hash == (CHOOSE e \in cache : e.Key = Key).Value
           Ref == ObjectStore_getReference(table, OutCAS, Hash)
       IN IF Ref = None THEN [kind |-> "Error", what |-> "does not exist in CAS"]
          ELSE Ref

\* ActionCache::put(Key, Result) on the cache of the jobs: the first value of
\* a key stays, another value is an error.
\* A put that replaces a value that the store does not hold.
ActionCache_put_replaceDangling(cache, table, Key, Result) ==
  LET Expected == ObjectStore_getID(table, Result.InternalRef)
      Live == {e \in cache : e.Key = Key /\ lookup(table, e.Value, 1) # 0}
  IN IF Live = {}
       THEN [cache |-> {e \in cache : e.Key # Key}
                         \cup {[Key |-> Key, Value |-> Expected]},
             ret |-> Success]
     ELSE IF (CHOOSE e \in Live : TRUE).Value = Expected
       THEN [cache |-> cache, ret |-> Success]
     ELSE [cache |-> cache, ret |-> [kind |-> "Error", what |-> "cache poisoned"]]

\* A put that replaces the value of a key that is bound to another value.
ActionCache_put_overwrite(cache, table, Key, Result) ==
  [cache |-> {e \in cache : e.Key # Key}
               \cup {[Key |-> Key,
                      Value |-> ObjectStore_getID(table, Result.InternalRef)]},
   ret |-> Success]

ActionCache_put(cache, table, Key, Result) ==
  LET Expected == ObjectStore_getID(table, Result.InternalRef)
      Existing == {e \in cache : e.Key = Key}
  IN IF Existing = {}
       THEN [cache |-> cache \cup {[Key |-> Key, Value |-> Expected]},
             ret |-> Success]
     ELSE IF (CHOOSE e \in Existing : TRUE).Value = Expected
       THEN [cache |-> cache, ret |-> Success]
     ELSE [cache |-> cache, ret |-> [kind |-> "Error", what |-> "cache poisoned"]]

\* The frontend: the object file of a source.
ObjectBytes(Src) == <<"obj", Src>>

\* The frontend: the outputs a successful compilation creates and keeps
\* through the output backend, the main output first.
FrontendOutputs(Invocation) ==
  <<[Path |-> Invocation.OutputFile, Bytes |-> ObjectBytes(Invocation.Src)]>> \o
  (IF Invocation.Src = "s2"
     THEN <<[Path |-> <<"a.dwo">>, Bytes |-> <<"dwo", Invocation.Src>>]>>
     ELSE <<>>)

\* The frontend: the text of the diagnostics of a compilation.
DiagnosticText(Src, success) ==
  IF ~success THEN <<"error", Src>>
  ELSE IF Src = "s2" THEN <<"warning", Src>> ELSE <<>>

\* The frontend: the serialized diagnostics of a compilation.
SerializedDiagnostics(Src, success) ==
  <<"dia">> \o DiagnosticText(Src, success)

\* CASDependencyCollector: the data of the object that describes the
\* dependencies of a source.
DependencyObject(Src) == <<"deps", Src>>

\* CASDependencyCollector::replay: the text of the dependency file.
CASDependencyCollector_replay(Bytes) == <<"make">> \o Tail(Bytes)

\* OnDiskOutputBackend, FileOutputBuffer::commit: Path holds Bytes.
DiskWrite(disk, Path, Bytes) ==
  {e \in disk : e.Path # Path} \cup {[Path |-> Path, Bytes |-> Bytes]}

\* The disk after the writes W[i], W[i+1], ... in order.
RECURSIVE WriteAll(_, _, _)
WriteAll(disk, W, i) ==
  IF i > Len(W) THEN disk
  ELSE WriteAll(DiskWrite(disk, W[i].Path, W[i].Bytes), W, i + 1)

\* The mirrored output files O[i], O[i+1], ... kept on the capturing backend.
RECURSIVE KeepAll(_, _, _, _)
KeepAll(impl, table, O, i) ==
  IF i > Len(O) THEN [Impl |-> impl, table |-> table]
  ELSE LET kept == OnKeep(makeImpl(impl), table, O[i].Path, O[i].Bytes)
       IN KeepAll(kept.Impl, kept.table, O, i + 1)

\* What the backend captured for the files O: their names and bytes.
CapturedOf(KindMaps, O) ==
  [i \in 1..Len(O) |-> [Name |-> ExpectedName(KindMaps, O[i].Path),
                        Bytes |-> O[i].Bytes]]

\* The kind mappings tryReplayCachedResult adds: one per kind with a path.
RECURSIVE AddKindMaps(_, _, _)
AddKindMaps(impl, j, k) ==
  IF k > Len(AllOutputKinds) THEN impl
  ELSE LET OutPath == getPathForOutputKind(j, AllOutputKinds[k])
       IN AddKindMaps(IF OutPath # <<>>
                        THEN CASOutputBackend_addKindMap(
                               impl, getOutputKindName(AllOutputKinds[k]), OutPath)
                        ELSE impl,
                      j, k + 1)

\* Schema.lookup on a tree: the internal ref of the entry Name, 0 if absent.
TreeLookup(Tree, Name) ==
  LET I == {i \in 1..Len(Tree.Data) : Tree.Data[i] = Name}
  IN IF I = {} THEN 0 ELSE Tree.Refs[CHOOSE i \in I : TRUE]

\* A replay that writes the name of an output as its contents.
OutputContents_name(table, OutKind, Name, Bytes) == table[Name].Data

\* replayCachedResult: the contents written for the pair Name, Bytes.
OutputContents(table, OutKind, Name, Bytes) ==
  IF OutKind = Some("Dependencies")
    THEN CASDependencyCollector_replay(table[Bytes].Data)
    ELSE table[Bytes].Data

\* replayCachedResult, the loop over the refs of the outputs object: the
\* files written for the pairs from I on, in order.
RECURSIVE ReplayOutputs(_, _, _, _)
ReplayOutputs(j, table, Refs, I) ==
  IF I + 1 > Len(Refs) THEN <<>>
  ELSE LET Name == table[Refs[I]].Data
           OutKind == getOutputKindForName(Name)
           Path == IF OutKind # None
                     THEN getPathForOutputKind(j, OutKind.value)
                     ELSE Name
       IN (IF Path = <<>> THEN <<>>
           ELSE <<[Name |-> Name, Path |-> Path,
                   Bytes |-> OutputContents(table, OutKind, Refs[I], Refs[I + 1])]>>)
          \o ReplayOutputs(j, table, Refs, I + 2)

\* A replay that prints nothing of the cached stderr.
ErrsData_none(table, Tree) == <<>>

\* replayCachedResult: llvm::errs() << Errs->getData(), the data of the
\* object the tree names stderr.
ErrsData(table, Tree) == table[TreeLookup(Tree, "stderr")].Data

\* CompileJobCache::replayCachedResult(Clang, ResultID, JustComputedResult):
\* the status, the disk after it, whether it loaded the tree, the files it
\* wrote and the text it printed to stderr.
replayCachedResult(j, table, disk, ResultID, JustComputedResult) ==
  IF JustComputedResult
    THEN [called |-> TRUE, JustComputedResult |-> TRUE, Status |-> None,
          Disk |-> disk, Opened |-> FALSE, Writes |-> <<>>, Printed |-> <<>>,
          Fatal |-> FALSE]
    ELSE LET Tree == table[ResultID.InternalRef]
         IN IF TreeLookup(Tree, "stderr") = 0
              THEN \* report_fatal_error("CAS error accessing stderr")
                   [called |-> TRUE, JustComputedResult |-> FALSE,
                    Status |-> None, Disk |-> disk, Opened |-> TRUE,
                    Writes |-> <<>>, Printed |-> <<>>, Fatal |-> TRUE]
            ELSE IF TreeLookup(Tree, "outputs") = 0
              THEN \* report_fatal_error("CAS error accessing outputs")
                   [called |-> TRUE, JustComputedResult |-> FALSE,
                    Status |-> None, Disk |-> disk, Opened |-> TRUE,
                    Writes |-> <<>>, Printed |-> ErrsData(table, Tree),
                    Fatal |-> TRUE]
            ELSE LET Outputs == table[TreeLookup(Tree, "outputs")]
                     Writes == ReplayOutputs(j, table, Outputs.Refs, 1)
                 IN [called |-> TRUE, JustComputedResult |-> FALSE,
                     Status |-> Some(0), Disk |-> WriteAll(disk, Writes, 1),
                     Opened |-> TRUE, Writes |-> Writes,
                     Printed |-> ErrsData(table, Tree), Fatal |-> FALSE]

\* What the job records of a replayCachedResult call.
ReplayOf(r) == [called |-> r.called, JustComputedResult |-> r.JustComputedResult,
                Opened |-> r.Opened, Writes |-> r.Writes, Printed |-> r.Printed]

\* The keys of the caching jobs that returned 0, j being the job after a step.
CompletedWith(j) ==
  IF j.pc = "done"
    THEN IF j.CacheCompileJob /\ j.Status = Some(0)
           THEN Completed \cup {j.ResultCacheKey.value}
           ELSE Completed
    ELSE Completed

\* The store holds nothing, no job has run.
InitJob ==
  /\ CacheUnused
  /\ StoreUnused
  /\ OutUnused
  /\ JobUnused
  /\ LibUnused

\* A cc1 process starts: cc1_main up to the construction of JobCache.
StartJob(Invocation) ==
  /\ ~JobRunning
  /\ Jobs < MaxJobs
  /\ job' = CompileJob(Invocation)
  /\ Jobs' = Jobs + 1
  /\ Impl' = NoImpl
  /\ UNCHANGED <<ActionCache, Disk, Populated, Succeeded, cacheVars, storeVars,
                 Files, Created, Kept, Consumed, out>>
  /\ Completed' = CompletedWith(job')
  /\ UNCHANGED libVars

\* An initialize that leaves the caching flag of the invocation as it is.
resetCacheCompileJob_kept(opts) == opts

\* FrontendOpts.CacheCompileJob = false;
resetCacheCompileJob(opts) == [opts EXCEPT !.CacheCompileJob = FALSE]

\* CompileJobCache::initialize; casOK says getOrCreateCAS and
\* getOrCreateActionCache returned a store and a cache.
initialize(casOK) ==
  /\ job.pc = "initialize"
  /\ job' = IF ~job.FrontendOpts.CacheCompileJob
              THEN [job EXCEPT !.pc = "tryReplayCachedResult",
                               !.FrontendOpts = resetCacheCompileJob(@)]
            ELSE IF ~casOK
              THEN Return([job EXCEPT !.CacheCompileJob = TRUE,
                                      !.FrontendOpts = resetCacheCompileJob(@)],
                          1)
            ELSE [job EXCEPT !.pc = "tryReplayCachedResult",
                             !.CacheCompileJob = TRUE,
                             !.FrontendOpts =
                               [resetCacheCompileJob(@) EXCEPT
                                  !.IncludeTimestamps = FALSE],
                             !.OutputFile = job.Invocation.OutputFile,
                             !.SerialDiagsFile =
                               job.Invocation.DiagnosticSerializationFile,
                             !.DependenciesFile =
                               job.Invocation.DependencyOutputFile]
  /\ UNCHANGED <<ActionCache, Disk, Populated, Succeeded, Jobs, cacheVars,
                 storeVars, outVars>>
  /\ Completed' = CompletedWith(job')
  /\ UNCHANGED libVars

\* A lookup whose error is not consumed.
consumeError_not(Got) == Got

\* tryReplayCachedResult: Cache->get(*ResultCacheKey).moveInto(Result), the
\* error consumed: Result after it, None after an error.
consumeError(Got) == IF Got.kind = "Error" THEN None ELSE Got

\* CompileJobCache::tryReplayCachedResult; noKey says createCompileJobCacheKey
\* failed, noFile that the serialized diagnostics file could not be created.
tryReplayCachedResult(outcome) ==
  /\ job.pc = "tryReplayCachedResult"
  /\ IF ~job.CacheCompileJob
       THEN /\ job' = [job EXCEPT !.pc = "ExecuteCompilerInvocation"]
            /\ UNCHANGED <<Disk, Impl>>
     ELSE IF outcome = "noKey"
       THEN /\ job' = Return(job, 1)
            /\ UNCHANGED <<Disk, Impl>>
     ELSE
       LET Key == createCompileJobCacheKey(job.Invocation)
           Got == ActionCache_get(ActionCache, Nodes[OutCAS], Key)
           Result == consumeError(Got)
           keyed == [job EXCEPT !.ResultCacheKey = Some(Key), !.Lookup = Got.kind]
       IN IF Result.kind = "Error"
            THEN \* an Error that is never consumed aborts the process
                 /\ job' = [keyed EXCEPT !.pc = "fatal", !.Failed = "get"]
                 /\ UNCHANGED <<Disk, Impl>>
          ELSE IF Result.kind = "Some"
            THEN LET r == replayCachedResult(keyed, Nodes[OutCAS], Disk,
                                             Result.value, FALSE)
                 IN /\ job' = [keyed EXCEPT
                                 !.pc = IF r.Fatal THEN "fatal" ELSE "done",
                                 !.Failed = IF r.Fatal THEN "replay" ELSE @,
                                 !.Hit = TRUE,
                                 !.Remarks = Append(@, <<"cache hit", Key>>),
                                 !.Stderr = @ \o r.Printed,
                                 !.Replay = ReplayOf(r),
                                 !.Status = r.Status]
                    /\ Disk' = r.Disk
                    /\ UNCHANGED Impl
            ELSE LET missed == [keyed EXCEPT
                                  !.Remarks = Append(@, <<"cache miss", Key>>)]
                 IN /\ Impl' = AddKindMaps(Impl, job, 1)
                    /\ job' = IF job.SerialDiagsFile = <<>>
                                THEN [missed EXCEPT !.pc = "ExecuteCompilerInvocation"]
                              ELSE IF outcome = "noFile"
                                THEN Return(missed, 1)
                              ELSE [missed EXCEPT
                                      !.pc = "ExecuteCompilerInvocation",
                                      !.SerialDiagsOutput =
                                        Some([Path |-> job.SerialDiagsFile,
                                              Bytes |-> <<>>])]
                    /\ UNCHANGED Disk
  /\ UNCHANGED <<ActionCache, Populated, Succeeded, Jobs, cacheVars, storeVars,
                 Files, Created, Kept, Consumed, out>>
  /\ Completed' = CompletedWith(job')
  /\ UNCHANGED libVars

\* raw_mirroring_ostream::write_impl: the text goes to Base and to Reflection.
write_impl(Base, Reflection, Text) ==
  [Base |-> Base \o Text, Reflection |-> Reflection \o Text]

\* ExecuteCompilerInvocation: the frontend runs and returns success.  With
\* caching on, its output files go to the capturing backend and to the disk,
\* its diagnostics to stderr and to ResultDiags, its serialized diagnostics
\* to the output file or to SerialDiagsBuf, its dependencies to the store.
ExecuteCompilerInvocation(success) ==
  /\ job.pc = "ExecuteCompilerInvocation"
  /\ LET Src == job.Invocation.Src
         Outs == IF success THEN FrontendOutputs(job.Invocation) ELSE <<>>
         Text == DiagnosticText(Src, success)
         ResultDiagsOS == write_impl(job.Stderr, job.ResultDiags, Text)
         ran == [job EXCEPT !.pc = "finishComputedResult",
                            !.Executed = @ + 1,
                            !.Success = success,
                            !.Stderr = IF job.CacheCompileJob
                                         THEN ResultDiagsOS.Base ELSE @ \o Text]
     IN /\ Disk' = WriteAll(Disk, Outs, 1)
        /\ IF ~job.CacheCompileJob
             THEN /\ job' = ran
                  /\ UNCHANGED <<Nodes, Impl, Succeeded>>
             ELSE LET kept == KeepAll(Impl, Nodes[OutCAS], Outs, 1)
                      deps == createProxy(kept.table, <<>>, DependencyObject(Src))
                      collect == success /\ job.DependenciesFile # <<>>
                  IN /\ Impl' = kept.Impl
                     /\ Nodes' = [Nodes EXCEPT ![OutCAS] =
                                    IF collect THEN deps.table ELSE kept.table]
                     /\ Succeeded' = IF success
                                       THEN Succeeded \cup {job.ResultCacheKey.value}
                                       ELSE Succeeded
                     /\ job' = [ran EXCEPT
                          !.ResultDiags = ResultDiagsOS.Reflection,
                          !.SerialDiagsBuf =
                            IF job.SerialDiagsOutput = None
                              THEN SerializedDiagnostics(Src, success) ELSE @,
                          !.SerialDiagsOutput =
                            IF job.SerialDiagsOutput = None THEN None
                            ELSE Some([Path |-> job.SerialDiagsOutput.value.Path,
                                       Bytes |-> SerializedDiagnostics(Src, success)]),
                          !.DependenciesOutput =
                            IF collect THEN Some(deps.Ref) ELSE None,
                          !.Captured = @ \o CapturedOf(makeImpl(Impl).KindMaps, Outs)]
  /\ UNCHANGED <<ActionCache, Populated, Jobs, cacheVars, Stored, Checks, client,
                 Files, Created, Kept, Consumed, out>>
  /\ Completed' = CompletedWith(job')
  /\ UNCHANGED libVars

\* A finishComputedResult that goes on after a failed compilation.
DontCache_never(success) == FALSE

\* finishComputedResult: if (!Success) return;
DontCache(success) == ~success

\* finishComputedResult up to "Don't cache failed builds": without caching
\* nothing; else the serialized diagnostics file, if any, is kept on the
\* capturing backend and on disk.  renamed = FALSE says the keep on disk
\* failed with a TempFileOutputError: the error is reported as a diagnostic
\* and the function goes on.
finishComputedResult(renamed) ==
  /\ job.pc = "finishComputedResult"
  /\ IF ~job.CacheCompileJob
       THEN /\ job' = Return(job, ExitStatus(job.Success))
            /\ UNCHANGED <<Nodes, Impl, Disk>>
       ELSE LET Outs == IF job.SerialDiagsOutput = None THEN <<>>
                        ELSE <<job.SerialDiagsOutput.value>>
                kept == KeepAll(Impl, Nodes[OutCAS], Outs, 1)
                failed == Outs # <<>> /\ ~renamed
                ResultDiagsOS == write_impl(job.Stderr, job.ResultDiags,
                                            <<"error", "rename">>)
                done == [job EXCEPT
                           !.Captured = @ \o CapturedOf(makeImpl(Impl).KindMaps, Outs),
                           !.Stderr = IF failed THEN ResultDiagsOS.Base ELSE @,
                           !.ResultDiags =
                             IF failed THEN ResultDiagsOS.Reflection ELSE @]
            IN /\ Impl' = kept.Impl
               /\ Nodes' = [Nodes EXCEPT ![OutCAS] = kept.table]
               /\ Disk' = IF failed THEN Disk ELSE WriteAll(Disk, Outs, 1)
               /\ job' = IF DontCache(job.Success)
                           THEN Return(done, ExitStatus(job.Success))
                           ELSE [done EXCEPT !.pc = "store"]
  /\ UNCHANGED <<ActionCache, Populated, Succeeded, Jobs, cacheVars, Stored,
                 Checks, client, Files, Created, Kept, Consumed, out>>
  /\ Completed' = CompletedWith(job')
  /\ UNCHANGED libVars

\* HierarchicalTreeBuilder::create for the entries outputs and stderr: the
\* tree names its refs in its data, sorted by name.
\* A result tree that is built without its stderr entry.
createTree_noStderr(table, Outputs, Errs) ==
  createProxy(table, <<Outputs>>, <<"outputs">>)

createTree(table, Outputs, Errs) ==
  createProxy(table, <<Outputs, Errs>>, <<"outputs", "stderr">>)

\* A fatal error that is ignored: the job returns 0.
report_fatal_error_ignored(j) == Return(j, 0)

\* llvm::report_fatal_error: the process ends without a status of cc1_main.
report_fatal_error(j) == [j EXCEPT !.pc = "fatal"]

\* The calls of finishComputedResult that store an object, in order.
StoreCalls == {"SerialDiags", "addSerialDiags", "addDependencies", "Outputs",
               "Errs", "Result"}

\* A finishComputedResult that stores no serialized diagnostics of its own.
StoreSerialDiags_never(j) == FALSE

\* finishComputedResult: if (!SerialDiagsOutput), the serialized diagnostics
\* in SerialDiagsBuf are stored and added.
StoreSerialDiags(j) == j.SerialDiagsOutput = None

\* finishComputedResult from the serialized diagnostics object to
\* Builder.create: the objects of the result are stored.  failing names the
\* call that returns an error, if any: the error is fatal.
storeResult(failing) ==
  /\ job.pc = "store"
  /\ LET SerialDiags == createProxy(Nodes[OutCAS], <<>>, job.SerialDiagsBuf)
         diags == IF StoreSerialDiags(job)
                    THEN CASOutputBackend_addObject(
                           Impl, SerialDiags.table,
                           getOutputKindName("SerializedDiagnostics"),
                           SerialDiags.Ref)
                    ELSE [Impl |-> Impl, table |-> Nodes[OutCAS]]
         deps == IF job.DependenciesOutput # None
                   THEN CASOutputBackend_addObject(
                          diags.Impl, diags.table,
                          getOutputKindName("Dependencies"),
                          job.DependenciesOutput.value)
                   ELSE diags
         Outputs == CASOutputBackend_getCASProxy(deps.Impl, deps.table)
         Errs == createProxy(Outputs.table, <<>>, job.ResultDiags)
         Result == createTree(Errs.table, Outputs.Ref, Errs.Ref)
         fails == CASE failing = "SerialDiags" -> StoreSerialDiags(job)
                    [] failing = "addSerialDiags" -> StoreSerialDiags(job)
                    [] failing = "addDependencies" -> job.DependenciesOutput # None
                    [] OTHER -> failing # "none"
         before == CASE failing = "SerialDiags" -> Nodes[OutCAS]
                     [] failing = "addSerialDiags" -> SerialDiags.table
                     [] failing = "addDependencies" -> diags.table
                     [] failing = "Outputs" -> deps.table
                     [] failing = "Errs" -> Outputs.table
                     [] OTHER -> Errs.table
     IN IF fails
          THEN /\ Nodes' = [Nodes EXCEPT ![OutCAS] = before]
               /\ job' = report_fatal_error([job EXCEPT !.Failed = failing])
               /\ UNCHANGED Impl
          ELSE /\ Impl' = Outputs.Impl
               /\ Nodes' = [Nodes EXCEPT ![OutCAS] = Result.table]
               /\ job' = [job EXCEPT
                    !.pc = "put",
                    !.Result = Some(Result.Ref),
                    !.Captured = @ \o
                      (IF StoreSerialDiags(job)
                         THEN <<[Name |-> SerializedDiagnosticsKindName,
                                 Bytes |-> job.SerialDiagsBuf]>>
                         ELSE <<>>) \o
                      (IF job.DependenciesOutput # None
                         THEN <<[Name |-> DependenciesOutputKindName,
                                 Bytes |-> DependencyObject(job.Invocation.Src)]>>
                         ELSE <<>>)]
  /\ UNCHANGED <<ActionCache, Disk, Populated, Succeeded, Jobs, cacheVars,
                 Stored, Checks, client, Files, Created, Kept, Consumed, out>>
  /\ Completed' = CompletedWith(job')
  /\ UNCHANGED libVars

\* finishComputedResult: Cache->put(*ResultCacheKey, Result->getRef()); an
\* error is fatal, be it a poisoned entry or, with ok = FALSE, a failure of
\* the table of the cache.
putResult(ok) ==
  /\ job.pc = "put"
  /\ LET Key == job.ResultCacheKey.value
         put == IF ok
                  THEN ActionCache_put(ActionCache, Nodes[OutCAS], Key, job.Result.value)
                  ELSE [cache |-> ActionCache,
                        ret |-> [kind |-> "Error", what |-> "put failed"]]
     IN /\ ActionCache' = put.cache
        /\ job' = IF put.ret = Success
                    THEN [job EXCEPT !.pc = "replay"]
                    ELSE report_fatal_error([job EXCEPT !.Failed = "put"])
        /\ Populated' = IF put.cache # ActionCache
                          THEN Populated \cup {[Key |-> Key,
                                                Invocation |-> job.Invocation,
                                                Captured |-> job.Captured,
                                                ResultDiags |-> job.ResultDiags]}
                          ELSE Populated
  /\ UNCHANGED <<Disk, Succeeded, Jobs, cacheVars, storeVars, outVars>>
  /\ Completed' = CompletedWith(job')
  /\ UNCHANGED libVars

\* finishComputedResult: replayCachedResult(Clang, Result->getRef(),
\* /*JustComputedResult=*/true), and cc1_main returns !Success.
replayComputedResult ==
  /\ job.pc = "replay"
  /\ LET r == replayCachedResult(job, Nodes[OutCAS], Disk, job.Result.value, TRUE)
     IN /\ Disk' = r.Disk
        /\ job' = Return([job EXCEPT !.Stderr = @ \o r.Printed,
                                     !.Replay = ReplayOf(r)],
                         ExitStatus(job.Success))
  /\ UNCHANGED <<ActionCache, Populated, Succeeded, Jobs, cacheVars, storeVars,
                 outVars>>
  /\ Completed' = CompletedWith(job')
  /\ UNCHANGED libVars

\* The process of the job is killed.
AbortJob ==
  /\ JobRunning
  /\ job' = [job EXCEPT !.pc = "aborted"]
  /\ UNCHANGED <<ActionCache, Disk, Populated, Succeeded, Jobs, cacheVars,
                 storeVars, outVars>>
  /\ Completed' = CompletedWith(job')
  /\ UNCHANGED libVars

\* The store of the jobs loses its objects between two jobs (its directory
\* is removed); the action cache is kept.
WipeCAS ==
  /\ ~JobRunning
  /\ Jobs < MaxJobs
  /\ Nodes[OutCAS] # <<>>
  /\ Nodes' = [Nodes EXCEPT ![OutCAS] = <<>>]
  /\ UNCHANGED <<Stored, Checks, client, cacheVars, outVars, jobVars, libVars>>

NextJob ==
  \/ \E Invocation \in Invocations : StartJob(Invocation)
  \/ \E casOK \in BOOLEAN : initialize(casOK)
  \/ \E outcome \in {"ok", "noKey", "noFile"} : tryReplayCachedResult(outcome)
  \/ \E success \in BOOLEAN : ExecuteCompilerInvocation(success)
  \/ \E renamed \in BOOLEAN : finishComputedResult(renamed)
  \/ \E failing \in StoreCalls \cup {"none"} : storeResult(failing)
  \/ \E ok \in BOOLEAN : putResult(ok)
  \/ replayComputedResult
  \/ AbortJob

SpecJob == InitJob /\ [][NextJob]_vars

\* Before the first job another client of the store and the cache binds the
\* key of a job to a tree of its own, which lacks the entry Missing.
ForeignPut(Key, Missing) ==
  /\ Jobs = 0
  /\ job = NoJob
  /\ ActionCache = {}
  /\ LET table == Nodes[OutCAS]
         Entry == IF Missing = "stderr"
                    THEN createProxy(table, <<>>, <<>>)
                    ELSE createProxy(table, <<>>, <<"old", "text">>)
         Tree == createProxy(Entry.table, <<Entry.Ref>>,
                   <<(IF Missing = "stderr" THEN "outputs" ELSE "stderr")>>)
     IN /\ Nodes' = [Nodes EXCEPT ![OutCAS] = Tree.table]
        /\ ActionCache' = ActionCache_put(ActionCache, Tree.table, Key,
                                          Tree.Ref).cache
  /\ UNCHANGED <<job, Disk, Populated, Succeeded, Jobs, Completed, Stored,
                 Checks, client, cacheVars, outVars, libVars>>

\* The compile jobs, with a store that may be wiped between them.
NextWipe ==
  \/ NextJob
  \/ WipeCAS

SpecWipe == InitJob /\ [][NextWipe]_vars

\* The keys another client binds before the first job.
ForeignKeys == {createCompileJobCacheKey(i) : i \in {x \in Invocations : x.Src = "s2"}}

\* The compile jobs, with a cache another client may have put a tree into.
NextForeign ==
  \/ NextJob
  \/ \E Key \in ForeignKeys, Missing \in {"stderr", "outputs"} :
       ForeignPut(Key, Missing)

SpecForeign == InitJob /\ [][NextForeign]_vars

\* The number of compile jobs that run around a wipe of the store.
MaxRecoveryJobs == 3

\* The invocations of the jobs that run around a wipe of the store: caching
\* jobs of one source, which derive one key, with and without a serialized
\* diagnostics file.
RecoveryInvocations ==
  {i \in Invocations : i.CacheCompileJob /\ i.Src = "s1"
                       /\ i.OutputFile = <<"a.o">>
                       /\ i.DependencyOutputFile = <<>>}

\* cc1_main entered by one more job of a build that goes on after a wipe.
RecoveryJob(Invocation) ==
  /\ ~JobRunning
  /\ Jobs < MaxRecoveryJobs
  /\ job' = CompileJob(Invocation)
  /\ Jobs' = Jobs + 1
  /\ Impl' = NoImpl
  /\ UNCHANGED <<ActionCache, Disk, Populated, Succeeded, cacheVars, storeVars,
                 Files, Created, Kept, Consumed, out>>
  /\ Completed' = CompletedWith(job')
  /\ UNCHANGED libVars

\* Compile jobs one after the other, the store being wiped between them
\* while the action cache stays.
NextRecovery ==
  \/ \E Invocation \in RecoveryInvocations : RecoveryJob(Invocation)
  \/ \E casOK \in BOOLEAN : initialize(casOK)
  \/ \E outcome \in {"ok", "noKey", "noFile"} : tryReplayCachedResult(outcome)
  \/ \E success \in BOOLEAN : ExecuteCompilerInvocation(success)
  \/ \E renamed \in BOOLEAN : finishComputedResult(renamed)
  \/ \E failing \in StoreCalls \cup {"none"} : storeResult(failing)
  \/ putResult(TRUE)
  \/ replayComputedResult
  \/ WipeCAS

SpecRecovery == InitJob /\ [][NextRecovery]_vars

\* The invocations of two compile jobs that run side by side on one store and
\* one action cache: caching jobs of one source, which derive one key, with
\* and without a serialized diagnostics file and a dependency file.
ConcInvocations ==
  {i \in Invocations : i.CacheCompileJob /\ i.Src = "s1"
                       /\ i.OutputFile = <<"a.o">>}

\* The scheduler takes the running process off the processor and runs the
\* other one: cc1_main of each process keeps its own CompileJobCache and its
\* own output backend, the store, the action cache and the disk are shared.
Switch ==
  /\ IF job = NoJob THEN other.job # NoJob ELSE TRUE
  /\ job' = other.job
  /\ Impl' = other.Impl
  /\ other' = [job |-> job, Impl |-> Impl]
  /\ UNCHANGED <<ActionCache, Disk, Populated, Succeeded, Jobs, Completed,
                 cacheVars, storeVars, Files, Created, Kept, Consumed, out,
                 scanVars, pluginVars, Deps>>

\* Two compile jobs in any interleaving of their steps. Their action cache
\* is the one of ActionCaches.cpp, whose put returns success or the poisoned
\* error and nothing else.
NextConc ==
  \/ \E Invocation \in ConcInvocations : StartJob(Invocation)
  \/ \E casOK \in BOOLEAN : initialize(casOK)
  \/ \E outcome \in {"ok", "noKey", "noFile"} : tryReplayCachedResult(outcome)
  \/ \E success \in BOOLEAN : ExecuteCompilerInvocation(success)
  \/ \E renamed \in BOOLEAN : finishComputedResult(renamed)
  \/ \E failing \in StoreCalls \cup {"none"} : storeResult(failing)
  \/ putResult(TRUE)
  \/ replayComputedResult
  \/ Switch

SpecConc == InitJob /\ [][NextConc]_vars

\* ============================================ the scanner service options

\* The services created in a run.
MaxServices == 2

\* The variables getFormat reads from the environment.
EnvVars == {"CLANG_CACHE_USE_INCLUDE_TREE", "CLANG_CACHE_USE_CASFS_DEPSCAN"}

\* CXDependencyMode.
DependencyModes == {"CXDependencyMode_Flat", "CXDependencyMode_Full"}

\* unwrap(CXDependencyMode): the ScanningOutputFormat of a mode.
unwrapMode(Format) ==
  IF Format = "CXDependencyMode_Flat" THEN "Make" ELSE "Full"

\* WrappedCASDatabases: the databases a client may hand over, one of them
\* without an action cache.
WrappedCASDatabases ==
  {[CASPath |-> "p1", CAS |-> "cas1", Cache |-> "ac1"],
   [CASPath |-> "p2", CAS |-> "cas2", Cache |-> "ac2"],
   [CASPath |-> "p1", CAS |-> "cas1", Cache |-> NullDB]}

\* Process::GetEnv(Name) has a value.
GetEnv(env, Name) == Name \in env

\* A getFormat that follows the environment without testing the databases.
getFormat_anyDatabases(opts, env) ==
  IF opts.ConfiguredFormat # "Full" THEN opts.ConfiguredFormat
  ELSE IF GetEnv(env, "CLANG_CACHE_USE_INCLUDE_TREE") THEN "FullIncludeTree"
  ELSE IF GetEnv(env, "CLANG_CACHE_USE_CASFS_DEPSCAN") THEN "FullTree"
  ELSE opts.ConfiguredFormat

\* getFormat with the two environment tests in the other order.
getFormat_casfsFirst(opts, env) ==
  IF opts.ConfiguredFormat # "Full" THEN opts.ConfiguredFormat
  ELSE IF opts.CAS = NullDB THEN opts.ConfiguredFormat
  ELSE IF opts.Cache = NullDB THEN opts.ConfiguredFormat
  ELSE IF GetEnv(env, "CLANG_CACHE_USE_CASFS_DEPSCAN") THEN "FullTree"
  ELSE IF GetEnv(env, "CLANG_CACHE_USE_INCLUDE_TREE") THEN "FullIncludeTree"
  ELSE opts.ConfiguredFormat

\* DependencyScannerServiceOptions::getFormat.
getFormat(opts, env) ==
  IF opts.ConfiguredFormat # "Full" THEN opts.ConfiguredFormat
  ELSE IF opts.CAS = NullDB THEN opts.ConfiguredFormat
  ELSE IF opts.Cache = NullDB THEN opts.ConfiguredFormat
  ELSE IF GetEnv(env, "CLANG_CACHE_USE_INCLUDE_TREE") THEN "FullIncludeTree"
  ELSE IF GetEnv(env, "CLANG_CACHE_USE_CASFS_DEPSCAN") THEN "FullTree"
  ELSE opts.ConfiguredFormat

\* The process starts with any of the variables set, and fresh options.
InitScan ==
  /\ CacheUnused
  /\ StoreUnused
  /\ OutUnused
  /\ JobUnused
  /\ PluginUnused
  /\ other = NoOther
  /\ Deps = NoDeps
  /\ Opts = DefaultOpts
  /\ Env \in SUBSET EnvVars
  /\ Services = <<>>

\* What a scanner option call leaves alone.
ScanFrame ==
  UNCHANGED <<Env, Services, cacheVars, storeVars, outVars, jobVars,
              pluginVars, other, Deps>>

\* clang_experimental_DependencyScannerServiceOptions_setDependencyMode.
setDependencyMode(Mode) ==
  /\ Opts' = [Opts EXCEPT !.ConfiguredFormat = unwrapMode(Mode)]
  /\ ScanFrame

\* clang_experimental_DependencyScannerServiceOptions_setCASDatabases.
setCASDatabases(DBs) ==
  /\ Opts' = [Opts EXCEPT !.CASPath = DBs.CASPath, !.CAS = DBs.CAS,
                          !.Cache = DBs.Cache]
  /\ ScanFrame

\* clang_experimental_DependencyScannerServiceOptions_setObjectStore.
setObjectStore(CAS) ==
  /\ Opts' = [Opts EXCEPT !.CAS = CAS.CAS, !.CASPath = CAS.CASPath]
  /\ ScanFrame

\* clang_experimental_DependencyScannerServiceOptions_setActionCache: the
\* path of the cache becomes the CAS path of the options.
setActionCache(C) ==
  /\ Opts' = [Opts EXCEPT !.Cache = C.Cache, !.CASPath = C.CASPath]
  /\ ScanFrame

\* What creating a service leaves alone.
ServiceFrame ==
  UNCHANGED <<Opts, Env, cacheVars, storeVars, outVars, jobVars, pluginVars,
              other, Deps>>

\* clang_experimental_DependencyScannerService_create_v0: the format is the
\* one passed in, and the service has no databases.
DependencyScannerService_create_v0(Format) ==
  /\ Len(Services) < MaxServices
  /\ Services' = Append(Services,
       [API |-> "v0", Format |-> unwrapMode(Format), CAS |-> NullDB,
        Cache |-> NullDB, FS |-> FALSE])
  /\ ServiceFrame

\* clang_experimental_DependencyScannerService_create_v1: the format is
\* getFormat() of the options, the databases are the ones of the options.
DependencyScannerService_create_v1 ==
  /\ Len(Services) < MaxServices
  /\ Services' = Append(Services,
       [API |-> "v1", Format |-> getFormat(Opts, Env), CAS |-> Opts.CAS,
        Cache |-> Opts.Cache,
        FS |-> (Opts.CAS # NullDB /\ Opts.Cache # NullDB)])
  /\ ServiceFrame

NextScan ==
  \/ \E Mode \in DependencyModes : setDependencyMode(Mode)
  \/ \E DBs \in WrappedCASDatabases : setCASDatabases(DBs)
  \/ \E DBs \in WrappedCASDatabases : setObjectStore(DBs)
  \/ \E DBs \in WrappedCASDatabases : setActionCache(DBs)
  \/ \E Format \in DependencyModes : DependencyScannerService_create_v0(Format)
  \/ DependencyScannerService_create_v1

SpecScan == InitScan /\ [][NextScan]_vars

\* ------------------------------------------- the getFileDependencies calls
\* The largest argc a client passes.
MaxArgc == 2

\* The getFileDependencies calls of a run.
MaxCalls == 1

\* The getFileDependencies entry points with an Out parameter, and the one
\* that returns the result.
DepsAPIs == {"v3", "v4", "v5"}

\* A worker check that accepts every scanning format.
FullFormat_any(Format) == TRUE

\* getFileDependencies: the scanning format is Full, FullTree or
\* FullIncludeTree.
FullFormat(Format) == Format \in {"Full", "FullTree", "FullIncludeTree"}

\* What getFullDependencies did: the code it returned, the calls of
\* computeDependencies, of the module-discovered callback and of
\* HandleTUDeps, and whether the assertion on DiagConsumer and Error ended
\* the process.
Did(Result, Scans, MDC, HandleTUDeps) ==
  [Result |-> Result, Scans |-> Scans, MDC |-> MDC,
   HandleTUDeps |-> HandleTUDeps]

\* getFullDependencies; HasDiagConsumer and HasError say which of the two was
\* passed, asserts that the build checks assertions, scanOK that
\* computeDependencies succeeds, Modules that the module graph of the result
\* is not empty.
getFullDependencies(HasDiagConsumer, HasError, asserts, scanOK, Modules) ==
  IF asserts /\ (HasDiagConsumer <=> HasError)
    THEN Did("abort", 0, 0, 0)
  ELSE IF HasDiagConsumer /\ ~scanOK THEN Did("CXError_Failure", 1, 0, 0)
  ELSE IF ~HasDiagConsumer /\ HasError /\ ~scanOK
    THEN Did("CXError_Failure", 1, 0, 0)
  ELSE LET Scanned == HasDiagConsumer \/ HasError
       IN Did("CXError_Success", IF Scanned THEN 1 ELSE 0,
              IF Scanned /\ Modules THEN 1 ELSE 0, 1)

\* The static getFileDependencies: W is 0 for a null worker and else the
\* service the worker was created on, argvOK says argv is not null.
getFileDependencies(W, argc, argvOK, HasDiagConsumer, HasError, asserts, scanOK, Modules) ==
  IF W = 0 THEN Did("CXError_InvalidArguments", 0, 0, 0)
  ELSE IF argc < 2 THEN Did("CXError_InvalidArguments", 0, 0, 0)
  ELSE IF ~argvOK THEN Did("CXError_InvalidArguments", 0, 0, 0)
  ELSE IF ~FullFormat(Services[W].Format)
    THEN Did("CXError_InvalidArguments", 0, 0, 0)
  ELSE getFullDependencies(HasDiagConsumer, HasError, asserts, scanOK,
                           Modules)

\* clang_experimental_DependencyScannerWorker_getFileDependencies_v3, _v4 and
\* _v5 on a worker of service W. Out is what the Out parameter points to
\* after the call (nullptr: the parameter itself is null; stale: what it
\* pointed to before); for v3 it is the pointer returned. v5 passes its own
\* diagnostic consumer and no Error.
FileDependencies(api, W, argc, argvOK, OutOK, HasError, asserts, scanOK, Modules) ==
  /\ Deps.Calls < MaxCalls
  /\ W \in 0..Len(Services)
  /\ IF api = "v3" THEN OutOK ELSE TRUE
  /\ IF api = "v5" THEN ~HasError ELSE TRUE
  /\ LET did == getFileDependencies(W, argc, argvOK, api = "v5", HasError,
                                    asserts, scanOK, Modules)
         In == [api |-> api, W |-> W, argc |-> argc, argvOK |-> argvOK,
                OutOK |-> OutOK, Calls |-> Deps.Calls + 1,
                Format |-> IF W = 0 THEN "none" ELSE Services[W].Format]
     IN Deps' =
          IF api # "v3" /\ ~OutOK
            THEN In @@ Did("CXError_InvalidArguments", 0, 0, 0)
                    @@ [Out |-> "nullptr"]
          ELSE In @@ did
                  @@ [Out |-> IF did.Result = "abort" THEN "stale"
                              ELSE IF did.HandleTUDeps > 0 THEN "list"
                              ELSE "null"]
  /\ UNCHANGED <<cacheVars, storeVars, outVars, jobVars, scanVars, pluginVars,
                 other>>

\* Services are configured and created, and clients ask workers on them for
\* the dependencies of a file.
NextDeps ==
  \/ \E Mode \in DependencyModes : setDependencyMode(Mode)
  \/ \E DBs \in {d \in WrappedCASDatabases :
                    d.CASPath = "p1" /\ d.Cache # NullDB} :
       setCASDatabases(DBs)
  \/ \E Format \in DependencyModes : DependencyScannerService_create_v0(Format)
  \/ DependencyScannerService_create_v1
  \/ \E api \in DepsAPIs, W \in 0..MaxServices, argc \in 0..MaxArgc,
        argvOK \in BOOLEAN, OutOK \in BOOLEAN, HasError \in BOOLEAN,
        asserts \in BOOLEAN, scanOK \in BOOLEAN, Modules \in BOOLEAN :
       FileDependencies(api, W, argc, argvOK, OutOK, HasError, asserts, scanOK,
                        Modules)

SpecDeps == InitScan /\ [][NextDeps]_vars

\* ================================================= the plugin databases

\* The plugin contexts created in a run.
MaxContexts == 2

\* PluginAPI_functions.def, the functions marked required, in table order:
\* the functions PluginCAS.cpp calls.
RequiredFunctions ==
  <<"cas_options_create", "cas_options_dispose",
    "cas_options_set_client_version", "cas_options_set_ondisk_path",
    "cas_options_set_option", "cas_create", "cas_get_hash_schema_name",
    "string_dispose", "cas_get_objectid", "objectid_get_digest",
    "cas_contains_object", "cas_store_object", "actioncache_get_for_digest",
    "actioncache_put_for_digest", "actioncache_get_map_for_digest",
    "actioncache_put_map_for_digest", "actioncache_map_get_entries_count",
    "actioncache_map_get_entry_name",
    "actioncache_map_get_entry_value_async">>

\* PluginAPI_functions.def, the functions marked optional, in table order.
OptionalFunctions == <<"cas_get_ondisk_size">>

\* PluginAPI_functions.def: CASPLUGINAPI_FUNCTION(name, required).
PluginAPI_functions ==
  [I \in 1..Len(RequiredFunctions) |->
     [name |-> RequiredFunctions[I], required |-> TRUE]]
  \o [I \in 1..Len(OptionalFunctions) |->
        [name |-> OptionalFunctions[I], required |-> FALSE]]

\* The functions a library of the run may lack.
MissingCandidates ==
  {"cas_create", "actioncache_get_map_for_digest", "cas_get_ondisk_size"}

\* The libraries a plugin path may name: one that does not load, and one
\* that loads and lacks some functions.
Libraries ==
  {[Path |-> "bad.dylib", Valid |-> FALSE, Missing |-> {}]}
  \cup {[Path |-> "plugin.dylib", Valid |-> TRUE, Missing |-> M] :
          M \in SUBSET MissingCandidates}

\* The option lists passed to the plugin.
ArgLists == {<<>>, << <<"k", "v">> >>}

\* The message of an error the plugin returns.
PluginMessage == "plugin failed"

\* Lib.getAddressOfSymbol("llcas_" #name) is not null.
getAddressOfSymbol(Lib, name) == name \notin Lib.Missing

\* The CASPLUGINAPI_FUNCTION test with every function taken as optional.
FailsLookup_optional(Lib, F) == FALSE

\* CASPLUGINAPI_FUNCTION(name, required): the lookup of F fails the load.
FailsLookup(Lib, F) == ~getAddressOfSymbol(Lib, F.name) /\ F.required

\* The table entries whose lookup fails the load.
FailedLookups(Lib) ==
  {I \in 1..Len(PluginAPI_functions) : FailsLookup(Lib, PluginAPI_functions[I])}

\* The first of them: the one the macro expansion returns at.
FirstFailedLookup(Lib) ==
  CHOOSE I \in FailedLookups(Lib) : \A J \in FailedLookups(Lib) : I <= J

\* llcas_functions_t Functions after the macro expansion.
ResolvedFunctions(Lib) ==
  {PluginAPI_functions[I].name : I \in 1..Len(PluginAPI_functions)}
  \ Lib.Missing

\* reportError(Description).
reportError(PluginPath, Description) ==
  [kind |-> "Error", what |-> <<"error loading", PluginPath>> \o Description]

\* errorAndDispose(c_err): the error, and the call that disposes c_err.
errorAndDispose(c_err) == [kind |-> "Error", what |-> <<c_err>>]

\* The calls of the loop over PluginArgs, up to a failing one.
SetOptionCalls(PluginArgs) ==
  [I \in 1..Len(PluginArgs) |-> "cas_options_set_option"]

\* PluginCASContext::create: the plugin functions it calls, what it returns,
\* and the context it creates if any; failing names the plugin function
\* that reports an error, handle is the llcas_cas_t of cas_create.
PluginCASContext_create(Lib, PluginArgs, failing, handle) ==
  LET Begin == <<"cas_options_create", "cas_options_set_client_version",
                 "cas_options_set_ondisk_path">>
  IN
  IF ~Lib.Valid
    THEN [Called |-> <<>>,
          Answer |-> reportError(Lib.Path, <<"cannot open">>),
          Created |-> <<>>]
  ELSE IF FailedLookups(Lib) # {}
    THEN [Called |-> <<>>,
          Answer |-> reportError(Lib.Path,
            <<"failed symbol", "llcas_",
              PluginAPI_functions[FirstFailedLookup(Lib)].name>>),
          Created |-> <<>>]
  ELSE IF failing = "cas_options_set_option"
    THEN [Called |-> Begin \o <<"cas_options_set_option", "string_dispose",
                                "cas_options_dispose">>,
          Answer |-> errorAndDispose(PluginMessage),
          Created |-> <<>>]
  ELSE IF failing = "cas_create"
    THEN [Called |-> Begin \o SetOptionCalls(PluginArgs)
                     \o <<"cas_create", "string_dispose",
                          "cas_options_dispose">>,
          Answer |-> errorAndDispose(PluginMessage),
          Created |-> <<>>]
  ELSE [Called |-> Begin \o SetOptionCalls(PluginArgs)
                   \o <<"cas_create", "cas_get_hash_schema_name",
                        "string_dispose", "cas_options_dispose">>,
        Answer |-> [kind |-> "Some", Ctx |-> handle],
        Created |-> <<[c_cas |-> handle,
                       Functions |-> ResolvedFunctions(Lib),
                       SchemaName |-> "llvm.cas.plugin"]>>]

\* The process has not been ended by report_fatal_error.
PluginAlive == Answer.kind # "fatal"

\* What a call on the plugin databases leaves alone.
PluginFrame ==
  UNCHANGED <<cacheVars, storeVars, outVars, jobVars, scanVars, other, Deps>>

\* No plugin is loaded; the plugin is empty.
InitPlugin ==
  /\ CacheUnused
  /\ StoreUnused
  /\ OutUnused
  /\ JobUnused
  /\ LibUnused

\* createPluginCASDatabases up to the return of PluginCASContext::create.
create(Lib, PluginArgs, failing) ==
  /\ PluginAlive
  /\ Len(Contexts) < MaxContexts
  /\ failing = "cas_options_set_option" => PluginArgs # <<>>
  /\ LET R == PluginCASContext_create(Lib, PluginArgs, failing,
                                      Len(Contexts) + 1)
     IN /\ Contexts' = Contexts \o R.Created
        /\ Called' = R.Called
        /\ Answer' = [op |-> "create", Lib |-> Lib] @@ R.Answer
  /\ UNCHANGED Plugin
  /\ PluginFrame

\* The data of the objects of a run; the digest of an object stands for it.
PluginData == {"d1", "d2"}

\* The action keys of a run.
PluginKeys == {"k1"}

\* The StringMap<ObjectRef> values passed to putMap.
MappingSets ==
  {{},
   {[Name |-> "a", Ref |-> "d1"]},
   {[Name |-> "a", Ref |-> "d1"], [Name |-> "b", Ref |-> "d2"]}}

\* llcas_lookup_result_t as the plugin may return it for something that is
\* present or absent: the truth, or an error.
LookupResults(present) ==
  {IF present THEN "LLCAS_LOOKUP_RESULT_SUCCESS"
   ELSE "LLCAS_LOOKUP_RESULT_NOTFOUND",
   "LLCAS_LOOKUP_RESULT_ERROR"}

\* The values the plugin's cache binds Key to.
CacheValues(Key) == {e.Value : e \in {x \in Plugin.Cache : x.Key = Key}}

\* The entry sets the plugin's map cache binds Key to.
MapValues(Key) == {e.Entries : e \in {x \in Plugin.Maps : x.Key = Key}}

\* The names of a map's entries, in the plugin's index order.
EntryNames(Entries) ==
  SelectSeq(<<"a", "b">>, LAMBDA n : \E e \in Entries : e.Name = n)

\* PluginObjectStore::store (of a leaf); ok says cas_store_object returned 0.
PluginObjectStore_store(i, Bytes, ok) ==
  /\ PluginAlive
  /\ i \in 1..Len(Contexts)
  /\ Called' = IF ok THEN <<"cas_store_object">>
               ELSE <<"cas_store_object", "string_dispose">>
  /\ Plugin' = IF ok THEN [Plugin EXCEPT !.Objects = @ \cup {Bytes}]
               ELSE Plugin
  /\ Answer' = IF ok
                 THEN [op |-> "store", kind |-> "Some", Ref |-> Bytes]
               ELSE [op |-> "store"] @@ errorAndDispose(PluginMessage)
  /\ UNCHANGED Contexts
  /\ PluginFrame

\* PluginObjectStore::getReference, the switch on c_result: ERROR ends the
\* process through report_fatal_error, with the plugin's message.
getReference_result(c_result, c_id) ==
  IF c_result = "LLCAS_LOOKUP_RESULT_SUCCESS"
    THEN [kind |-> "Some", Ref |-> c_id]
  ELSE IF c_result = "LLCAS_LOOKUP_RESULT_NOTFOUND"
    THEN [kind |-> "None"]
  ELSE [kind |-> "fatal", what |-> <<PluginMessage>>]

\* PluginObjectStore::getReference; idOK says cas_get_objectid returned 0.
PluginObjectStore_getReference(i, ID, idOK, c_result) ==
  /\ PluginAlive
  /\ i \in 1..Len(Contexts)
  /\ c_result \in LookupResults(ID \in Plugin.Objects)
  /\ Called' =
       IF ~idOK THEN <<"cas_get_objectid", "string_dispose">>
       ELSE IF c_result = "LLCAS_LOOKUP_RESULT_ERROR"
         THEN <<"cas_get_objectid", "cas_contains_object", "string_dispose">>
       ELSE <<"cas_get_objectid", "cas_contains_object">>
  /\ Answer' =
       IF ~idOK
         THEN [op |-> "getReference", c_result |-> "none", kind |-> "fatal",
               what |-> <<PluginMessage>>]
       ELSE [op |-> "getReference", c_result |-> c_result]
            @@ getReference_result(c_result, ID)
  /\ UNCHANGED <<Contexts, Plugin>>
  /\ PluginFrame

\* PluginActionCache::getImpl, the switch on c_result.
getImpl_result(c_result, c_value) ==
  IF c_result = "LLCAS_LOOKUP_RESULT_SUCCESS"
    THEN [kind |-> "Some", ID |-> c_value]
  ELSE IF c_result = "LLCAS_LOOKUP_RESULT_NOTFOUND"
    THEN [kind |-> "None"]
  ELSE errorAndDispose(PluginMessage)

\* PluginActionCache::getImpl.
PluginActionCache_getImpl(i, ResolvedKey, c_result) ==
  /\ PluginAlive
  /\ i \in 1..Len(Contexts)
  /\ c_result \in LookupResults(CacheValues(ResolvedKey) # {})
  /\ Called' =
       IF c_result = "LLCAS_LOOKUP_RESULT_SUCCESS"
         THEN <<"actioncache_get_for_digest", "objectid_get_digest">>
       ELSE IF c_result = "LLCAS_LOOKUP_RESULT_ERROR"
         THEN <<"actioncache_get_for_digest", "string_dispose">>
       ELSE <<"actioncache_get_for_digest">>
  /\ Answer' =
       [op |-> "getImpl", c_result |-> c_result]
       @@ getImpl_result(c_result,
            IF CacheValues(ResolvedKey) = {} THEN "none"
            ELSE CHOOSE v \in CacheValues(ResolvedKey) : TRUE)
  /\ UNCHANGED <<Contexts, Plugin>>
  /\ PluginFrame

\* PluginActionCache::putImpl; failing names the plugin function that
\* reports an error. The plugin refuses to bind a key to a second value.
PluginActionCache_putImpl(i, ResolvedKey, Result, failing) ==
  /\ PluginAlive
  /\ i \in 1..Len(Contexts)
  /\ failing \in {"none", "cas_get_objectid", "actioncache_put_for_digest"}
  /\ failing = "none" => CacheValues(ResolvedKey) \subseteq {Result}
  /\ Called' =
       IF failing = "cas_get_objectid"
         THEN <<"cas_get_objectid", "string_dispose">>
       ELSE IF failing = "actioncache_put_for_digest"
         THEN <<"cas_get_objectid", "actioncache_put_for_digest",
                "string_dispose">>
       ELSE <<"cas_get_objectid", "actioncache_put_for_digest">>
  /\ Plugin' =
       IF failing = "none"
         THEN [Plugin EXCEPT !.Cache =
                 @ \cup {[Key |-> ResolvedKey, Value |-> Result]}]
       ELSE Plugin
  /\ Answer' =
       IF failing = "none" THEN [op |-> "putImpl", kind |-> "success"]
       ELSE [op |-> "putImpl"] @@ errorAndDispose(PluginMessage)
  /\ UNCHANGED Contexts
  /\ PluginFrame

\* The context test of getMap and putMap with every store accepted.
SameContext_any(CAS, i) == TRUE

\* &CAS.getContext() == &getContext(): the store passed in is a store of
\* context i; CAS is the number of the store's context, 0 for a store that
\* is not a plugin store.
SameContext(CAS, i) == CAS = i

\* The invalid-argument error of getMap and putMap.
WrongContextError ==
  [kind |-> "Error",
   what |-> <<"invalid_argument", "expected ObjectStore from plugin context">>]

\* PluginActionCache::getMap, the switch on c_result with NOTFOUND and
\* ERROR exchanged.
getMap_result_exchanged(c_result, Ctx, CAS, c_map, Entries) ==
  IF c_result = "LLCAS_LOOKUP_RESULT_SUCCESS"
    THEN [kind |-> "Some",
          Map |-> [Ctx |-> Ctx, CAS |-> CAS, c_map |-> c_map,
                   Names |-> EntryNames(Entries)]]
  ELSE IF c_result = "LLCAS_LOOKUP_RESULT_ERROR"
    THEN [kind |-> "None"]
  ELSE errorAndDispose(PluginMessage)

\* PluginActionCache::getMap, the switch on c_result; SUCCESS constructs a
\* PluginActionCacheMap, which reads the names of the entries.
getMap_result(c_result, Ctx, CAS, c_map, Entries) ==
  IF c_result = "LLCAS_LOOKUP_RESULT_SUCCESS"
    THEN [kind |-> "Some",
          Map |-> [Ctx |-> Ctx, CAS |-> CAS, c_map |-> c_map,
                   Names |-> EntryNames(Entries)]]
  ELSE IF c_result = "LLCAS_LOOKUP_RESULT_NOTFOUND"
    THEN [kind |-> "None"]
  ELSE errorAndDispose(PluginMessage)

\* The plugin calls of getMap after the context test.
getMap_calls(c_result, Entries) ==
  IF c_result = "LLCAS_LOOKUP_RESULT_SUCCESS"
    THEN <<"actioncache_get_map_for_digest",
           "actioncache_map_get_entries_count">>
         \o [I \in 1..Cardinality(Entries) |->
               "actioncache_map_get_entry_name"]
  ELSE IF c_result = "LLCAS_LOOKUP_RESULT_ERROR"
    THEN <<"actioncache_get_map_for_digest", "string_dispose">>
  ELSE <<"actioncache_get_map_for_digest">>

\* PluginActionCache::getMap.
PluginActionCache_getMap(i, ActionKey, CAS, c_result) ==
  /\ PluginAlive
  /\ i \in 1..Len(Contexts)
  /\ CAS \in 0..Len(Contexts)
  /\ c_result \in LookupResults(MapValues(ActionKey) # {})
  /\ LET Entries == IF MapValues(ActionKey) = {} THEN {}
                    ELSE CHOOSE E \in MapValues(ActionKey) : TRUE
     IN IF ~SameContext(CAS, i)
          THEN /\ Called' = <<>>
               /\ Answer' = [op |-> "getMap", c_result |-> "none", Ctx |-> i,
                             CAS |-> CAS] @@ WrongContextError
        ELSE /\ Called' = getMap_calls(c_result, Entries)
             /\ Answer' = [op |-> "getMap", c_result |-> c_result, Ctx |-> i,
                           CAS |-> CAS]
                          @@ getMap_result(c_result, i, CAS, ActionKey,
                                           Entries)
  /\ UNCHANGED <<Contexts, Plugin>>
  /\ PluginFrame

\* PluginActionCache::putMap; ok says actioncache_put_map_for_digest
\* returned 0, and the plugin then binds the key to the entries.
PluginActionCache_putMap(i, ActionKey, Mappings, CAS, ok) ==
  /\ PluginAlive
  /\ i \in 1..Len(Contexts)
  /\ CAS \in 0..Len(Contexts)
  /\ IF ~SameContext(CAS, i)
       THEN /\ Called' = <<>>
            /\ Plugin' = Plugin
            /\ Answer' = [op |-> "putMap", Ctx |-> i, CAS |-> CAS]
                         @@ WrongContextError
     ELSE /\ Called' = IF ok THEN <<"actioncache_put_map_for_digest">>
                       ELSE <<"actioncache_put_map_for_digest",
                              "string_dispose">>
          /\ Plugin' =
               IF ok
                 THEN [Plugin EXCEPT !.Maps =
                         {x \in @ : x.Key # ActionKey}
                         \cup {[Key |-> ActionKey, Entries |-> Mappings]}]
               ELSE Plugin
          /\ Answer' =
               IF ok THEN [op |-> "putMap", Ctx |-> i, CAS |-> CAS,
                           kind |-> "success"]
               ELSE [op |-> "putMap", Ctx |-> i, CAS |-> CAS]
                    @@ errorAndDispose(PluginMessage)
  /\ UNCHANGED Contexts
  /\ PluginFrame

\* The names a client may ask a map for.
MapNames == {"a", "b"}

\* A GetValueCB that does not delete its GetValueCtx.
scope_exit_leak(Deleted) == Deleted

\* make_scope_exit([Ctx]() { delete Ctx; }): the GetValueCtx objects deleted
\* once the scope of getValueAndDispose is left.
scope_exit(Deleted) == Deleted + 1

\* Promise.set_value: the number of values the promise was given.
set_value(Fulfilled) == Fulfilled + 1

\* PluginActionCacheMap::getValueAsync on the map the last getMap returned:
\* a name that is not in the map sets the promise to an invalid-argument
\* error, any other name starts the plugin's lookup by index with a new
\* GetValueCtx. The answer counts the values the promise was given
\* (Fulfilled), the GetValueCtx objects made (CallCtx) and deleted (Deleted).
getValueAsync(Name) ==
  /\ PluginAlive
  /\ Answer.op = "getMap"
  /\ Answer.kind = "Some"
  /\ LET Map == Answer.Map
         Found == {I \in 1..Len(Map.Names) : Map.Names[I] = Name}
     IN IF Found = {}
          THEN /\ Called' = <<>>
               /\ Answer' =
                    [op |-> "getValueAsync", c_result |-> "none",
                     Name |-> Name, Names |-> Map.Names,
                     Fulfilled |-> set_value(0), CallCtx |-> 0, Deleted |-> 0,
                     kind |-> "Error",
                     what |-> <<"invalid_argument", Name,
                                "not part of action cache map">>]
        ELSE /\ Called' = <<"actioncache_map_get_entry_value_async">>
             /\ Answer' =
                  [op |-> "getValueAsync", c_result |-> "none",
                   Name |-> Name, Names |-> Map.Names,
                   Fulfilled |-> 0, CallCtx |-> 1, Deleted |-> 0,
                   kind |-> "Pending", Map |-> Map,
                   Index |-> (CHOOSE I \in Found : TRUE) - 1]
  /\ UNCHANGED <<Contexts, Plugin>>
  /\ PluginFrame

\* GetValueCB, the switch on c_result.
GetValueCB_result(c_result, c_entry) ==
  IF c_result = "LLCAS_LOOKUP_RESULT_SUCCESS"
    THEN [kind |-> "Some", Ref |-> c_entry.Ref]
  ELSE IF c_result = "LLCAS_LOOKUP_RESULT_NOTFOUND"
    THEN [kind |-> "None"]
  ELSE errorAndDispose(PluginMessage)

\* The entry the plugin passes to the callback: the entry of the map the
\* plugin holds now at that index, if there is one.
EntryAt(Map, Index) ==
  {e \in UNION MapValues(Map.c_map) : e.Name = Map.Names[Index + 1]}

\* GetValueCB: the plugin calls back with the result of the lookup, and the
\* promise of the pending getValueAsync is set.
GetValueCB(c_result) ==
  /\ PluginAlive
  /\ Answer.op = "getValueAsync"
  /\ Answer.kind = "Pending"
  /\ LET Entry == EntryAt(Answer.Map, Answer.Index)
     IN /\ c_result \in LookupResults(
               \E e \in Entry : e.Ref \in Plugin.Objects)
        /\ Answer' =
             [op |-> "getValueAsync", c_result |-> c_result,
              Name |-> Answer.Name, Names |-> Answer.Names,
              Fulfilled |-> set_value(Answer.Fulfilled),
              CallCtx |-> Answer.CallCtx,
              Deleted |-> scope_exit(Answer.Deleted)]
             @@ GetValueCB_result(c_result,
                  IF Entry = {} THEN [Name |-> "none", Ref |-> "none"]
                  ELSE CHOOSE e \in Entry : TRUE)
  /\ Called' = IF c_result = "LLCAS_LOOKUP_RESULT_ERROR"
                 THEN <<"string_dispose">> ELSE <<>>
  /\ UNCHANGED <<Contexts, Plugin>>
  /\ PluginFrame

NextPlugin ==
  \/ \E Lib \in Libraries, PluginArgs \in ArgLists,
        failing \in {"none", "cas_options_set_option", "cas_create"} :
       create(Lib, PluginArgs, failing)
  \/ \E i \in 1..MaxContexts, Bytes \in PluginData, ok \in BOOLEAN :
       PluginObjectStore_store(i, Bytes, ok)
  \/ \E i \in 1..MaxContexts, ID \in PluginData, idOK \in BOOLEAN,
        c_result \in LookupResults(TRUE) \cup LookupResults(FALSE) :
       PluginObjectStore_getReference(i, ID, idOK, c_result)
  \/ \E i \in 1..MaxContexts, Key \in PluginKeys,
        c_result \in LookupResults(TRUE) \cup LookupResults(FALSE) :
       PluginActionCache_getImpl(i, Key, c_result)
  \/ \E i \in 1..MaxContexts, Key \in PluginKeys, Result \in PluginData,
        failing \in {"none", "cas_get_objectid",
                     "actioncache_put_for_digest"} :
       PluginActionCache_putImpl(i, Key, Result, failing)
  \/ \E i \in 1..MaxContexts, Key \in PluginKeys, CAS \in 0..MaxContexts,
        c_result \in LookupResults(TRUE) \cup LookupResults(FALSE) :
       PluginActionCache_getMap(i, Key, CAS, c_result)
  \/ \E i \in 1..MaxContexts, Key \in PluginKeys, Mappings \in MappingSets,
        CAS \in 0..MaxContexts, ok \in BOOLEAN :
       PluginActionCache_putMap(i, Key, Mappings, CAS, ok)
  \/ \E Name \in MapNames : getValueAsync(Name)
  \/ \E c_result \in LookupResults(TRUE) \cup LookupResults(FALSE) :
       GetValueCB(c_result)

SpecPlugin == InitPlugin /\ [][NextPlugin]_vars

\* ================================================================ claims
\* Thread t has returned from a call of op o; its record holds the call.
Returned(t, o) == thr[t].pc = "idle" /\ thr[t].op = o

\* The digest putImpl expects for the put thread t is in or has returned from.
ExpectedOf(t) == getID(Objects, thr[t].Result)

\* The slot of the call of thread t.
SlotOf(t) == Cache[TrieOf(thr[t].cache)][thr[t].key]

\* Thread t takes a step of a call of op o.
StepOf(t, o) == thr'[t] # thr[t] /\ thr'[t].op = o

\* C1: after put(k, v) succeeded on a cache, v a ref of the paired store,
\* every later get(k) on that cache returns Some(v).
C1_PutThenGetHits ==
  \A t \in Threads :
    Returned(t, "get") =>
      \A p \in thr[t].After : p[1] = thr[t].cache => thr[t].ret = Some(p[2])

C1_Witness ==
  \E t \in Threads :
    /\ Returned(t, "get")
    /\ \E p \in thr[t].After : p[1] = thr[t].cache /\ thr[t].ret = Some(p[2])

\* C2: get(k) returns None for a key no put was ever called on, also when k
\* is the digest of a value bound to another key; no step of get changes the
\* cache.
C2_MissOnUnputKey ==
  /\ [](\A t \in Threads :
          (Returned(t, "get") /\ firstPut[TrieOf(thr[t].cache)][thr[t].key] = NoEntry)
            => thr[t].ret = None)
  /\ [][\A t \in Threads :
          StepOf(t, "get") => (Cache' = Cache /\ Constructed' = Constructed)]_vars

C2_Witness ==
  \E t \in Threads :
    /\ Returned(t, "get")
    /\ firstPut[TrieOf(thr[t].cache)][thr[t].key] = NoEntry
    /\ thr[t].ret = None
    /\ \E k2 \in Keys \ {thr[t].key} : Cache[TrieOf(thr[t].cache)][k2] = thr[t].key

\* C3: put(k, v2) on a key already bound to a digest other than v2's fails
\* with the poisoned error, which names v2 and the existing value.
C3_PoisonedNamesBoth ==
  \A t \in Threads :
    (Returned(t, "put") /\ thr[t].Prior # NoEntry /\ ExpectedOf(t) # thr[t].Prior)
      => /\ thr[t].ret.kind = "Error"
         /\ thr[t].ret.code = "invalid_argument"
         /\ thr[t].ret.what = "cache poisoned"
         /\ thr[t].ret.Key = hashToString(thr[t].key)
         /\ thr[t].ret.New = toString(ExpectedOf(t))
         /\ thr[t].ret.Existing \in {toString(thr[t].Prior), hashToString(thr[t].Prior)}

C3_Witness ==
  \E t \in Threads :
    /\ Returned(t, "put") /\ thr[t].Prior # NoEntry /\ ExpectedOf(t) # thr[t].Prior
    /\ thr[t].ret.kind = "Error"

\* C4: a put that succeeded leaves k bound to v's digest, and every put(k, v)
\* on a key bound to v's digest succeeds and leaves the cache as it was.
C4_PutIdempotent ==
  /\ [](\A t \in Threads :
          Returned(t, "put") =>
            /\ thr[t].ret = Success => SlotOf(t) = ExpectedOf(t)
            /\ thr[t].Prior = ExpectedOf(t) => thr[t].ret = Success)
  /\ [][\A t \in Threads :
          (StepOf(t, "put") /\ thr'[t].Prior = getID(Objects, thr'[t].Result))
            => (Cache' = Cache /\ Constructed' = Constructed)]_vars

C4_Witness ==
  \E t \in Threads :
    /\ Returned(t, "put") /\ thr[t].Prior = ExpectedOf(t)
    /\ thr[t].ret = Success

\* C5: a bound key keeps its value for ever, the value is that of the first
\* put called on the key, a put on a bound key leaves the cache unchanged, and
\* a get that returns a ref returns one of that first value.
C5_FirstWriterWins ==
  /\ [](\A tr \in Tries, k \in Keys :
          Cache[tr][k] # NoEntry => Cache[tr][k] = firstPut[tr][k])
  /\ [](\A t \in Threads :
          (Returned(t, "get") /\ thr[t].ret.kind = "Some")
            => getID(Objects, thr[t].ret.value) = firstPut[TrieOf(thr[t].cache)][thr[t].key])
  /\ [][\A tr \in Tries, k \in Keys :
          Cache[tr][k] # NoEntry => Cache'[tr][k] = Cache[tr][k]]_vars
  /\ [][\A t \in Threads :
          (StepOf(t, "put") /\ thr'[t].Prior # NoEntry) => Cache' = Cache]_vars

C5_Witness ==
  \E t \in Threads :
    /\ Returned(t, "put") /\ thr[t].ret.kind = "Error"
    /\ SlotOf(t) = firstPut[TrieOf(thr[t].cache)][thr[t].key]
    /\ SlotOf(t) # ExpectedOf(t)

\* C6: a get through an on-disk cache, of a key whose value was put through
\* the other on-disk cache of the same directory, fails with the unknown
\* object (dangling) error when the paired store lacks the value's digest.
C6_CrossStoreDangling ==
  \A t \in Threads :
    Returned(t, "get") /\ TrieOf(thr[t].cache) = "disk" =>
      \A p \in thr[t].After :
        (p[1] # thr[t].cache
         /\ getReference(Objects, CASOf(thr[t].cache), getID(Objects, p[2])) = None)
          => /\ thr[t].ret.kind = "Error"
             /\ thr[t].ret.code = "no_such_device_or_address"
             /\ thr[t].ret.what = "does not exist in CAS"
             /\ thr[t].ret.Key = hashToString(thr[t].key)
             /\ thr[t].ret.Hash = hashToString(getID(Objects, p[2]))

C6_Witness ==
  \E t \in Threads :
    /\ Returned(t, "get") /\ TrieOf(thr[t].cache) = "disk"
    /\ \E p \in thr[t].After :
         /\ p[1] # thr[t].cache
         /\ getReference(Objects, CASOf(thr[t].cache), getID(Objects, p[2])) = None
    /\ thr[t].ret.kind = "Error"

\* C7: a get through the in-memory cache, of a key whose entry names a digest
\* unknown to the paired store, returns an error.
C7_InMemoryDanglingIsError ==
  \A t \in Threads :
    (Returned(t, "get") /\ thr[t].cache = "Mem1" /\ thr[t].Observed # NoEntry
     /\ getReference(Objects, CASOf(thr[t].cache), thr[t].Observed) = None)
      => thr[t].ret.kind = "Error"

\* A put through an on-disk cache found the key bound to a digest that the
\* paired store, which holds the new value, cannot resolve.
PutOnUnresolvable(t) ==
  /\ Returned(t, "put") /\ TrieOf(thr[t].cache) = "disk"
  /\ thr[t].Result.CAS = CASOf(thr[t].cache)
  /\ thr[t].Prior # NoEntry
  /\ getReference(Objects, CASOf(thr[t].cache), thr[t].Prior) = None

\* C8 as stated: such a put fails with the unknown object (dangling) error.
C8_PutOnUnresolvableIsDangling ==
  \A t \in Threads :
    PutOnUnresolvable(t) =>
      thr[t].ret.kind = "Error" /\ thr[t].ret.code = "no_such_device_or_address"

\* C8, amended: such a put fails with the poisoned error, which names the
\* existing value by the hex of its digest.
C8_PutOnUnresolvableIsPoisoned ==
  \A t \in Threads :
    PutOnUnresolvable(t) =>
      /\ thr[t].ret.kind = "Error"
      /\ thr[t].ret.code = "invalid_argument"
      /\ thr[t].ret.what = "cache poisoned"
      /\ thr[t].ret.New = toString(ExpectedOf(t))
      /\ thr[t].ret.Existing = hashToString(thr[t].Prior)

C8_Witness ==
  \E t \in Threads : PutOnUnresolvable(t) /\ thr[t].ret.kind = "Error"

\* Thread u is in, or has returned from, a put on the slot of thread t.
PutOnSlotOf(t, u) ==
  /\ thr[u].op = "put"
  /\ TrieOf(thr[u].cache) = TrieOf(thr[t].cache)
  /\ thr[u].key = thr[t].key

\* C9: concurrent puts on one key run the payload constructor once, every
\* insertLazy returns the payload in the slot, and puts of one digest all
\* succeed.
C9_TrieInsertOnce ==
  /\ \A tr \in Tries, k \in Keys :
       Constructed[tr][k] = IF Cache[tr][k] = NoEntry THEN 0 ELSE 1
  /\ \A t \in Threads :
       (thr[t].op = "put" /\ thr[t].pc \in {"compare", "idle"})
         => thr[t].Observed = SlotOf(t)
  /\ \A t \in Threads :
       (Returned(t, "put")
        /\ \A u \in Threads : PutOnSlotOf(t, u) => ExpectedOf(u) = ExpectedOf(t))
         => thr[t].ret = Success

C9_Witness ==
  /\ \A t \in Threads :
       /\ Returned(t, "put") /\ thr[t].Prior = NoEntry /\ thr[t].ret = Success
       /\ PutOnSlotOf(MainThread, t)
  /\ Constructed[TrieOf(thr[MainThread].cache)][thr[MainThread].key] = 1

\* Threads t and u raced two puts of different values on an unbound key of
\* one cache, and no other thread put on that key.
RacedPuts(t, u) ==
  /\ t # u
  /\ Returned(t, "put") /\ Returned(u, "put")
  /\ thr[t].cache = thr[u].cache /\ thr[t].key = thr[u].key
  /\ thr[t].Prior = NoEntry /\ thr[u].Prior = NoEntry
  /\ thr[t].Result.CAS = CASOf(thr[t].cache)
  /\ thr[u].Result.CAS = CASOf(thr[u].cache)
  /\ ExpectedOf(t) # ExpectedOf(u)
  /\ \A w \in Threads \ {t, u} : ~PutOnSlotOf(t, w)

\* C10: of two racing puts of different values exactly one succeeds, the
\* other fails as poisoned, and get then returns the value that succeeded.
C10_RacingPutsOneWinner ==
  \A t, u \in Threads :
    RacedPuts(t, u) =>
      /\ (thr[t].ret = Success) # (thr[u].ret = Success)
      /\ thr[t].ret = Success =>
           /\ thr[u].ret.kind = "Error"
           /\ thr[u].ret.code = "invalid_argument"
           /\ thr[u].ret.what = "cache poisoned"
           /\ getImpl(thr[t].cache, Objects, thr[t].key,
                      find(Cache[TrieOf(thr[t].cache)], thr[t].key))
                = Some(thr[t].Result)

C10_Witness ==
  \E t, u \in Threads :
    RacedPuts(t, u) /\ thr[t].ret = Success /\ thr[u].ret.kind = "Error"

\* Thread t is past the find of a get that was called on an unbound key.
GetOnUnbound(t) ==
  /\ thr[t].op = "get" /\ thr[t].pc \in {"getReference", "idle"}
  /\ thr[t].Prior = NoEntry

\* C11: a get(k) that runs concurrently with puts on an unbound key k finds
\* either no entry or the complete digest of one of the values being put, and
\* returns None, a ref of that value, or the unknown object error naming
\* that digest; it never sees a partially written digest.
C11_NoPartialWrite ==
  \A t \in Threads :
    GetOnUnbound(t) =>
      /\ \/ thr[t].Observed = NoEntry
         \/ \E u \in Threads : PutOnSlotOf(t, u) /\ thr[t].Observed = ExpectedOf(u)
      /\ thr[t].pc = "idle" =>
           \/ thr[t].Observed = NoEntry /\ thr[t].ret = None
           \/ /\ thr[t].Observed # NoEntry
              /\ \/ /\ thr[t].ret.kind = "Some"
                    /\ thr[t].ret.value.CAS = CASOf(thr[t].cache)
                    /\ getID(Objects, thr[t].ret.value) = thr[t].Observed
                 \/ /\ thr[t].ret.kind = "Error"
                    /\ thr[t].ret.code = "no_such_device_or_address"
                    /\ thr[t].ret.Hash = hashToString(thr[t].Observed)
                 \/ /\ thr[t].ret = None
                    /\ thr[t].cache = "Mem1"
                    /\ getReference(Objects, CASOf(thr[t].cache), thr[t].Observed) = None

\* A get called on the unbound key while a put was in flight returned the
\* value of that put.
C11_Witness ==
  \E t, u \in Threads :
    /\ t # u
    /\ GetOnUnbound(t) /\ thr[t].pc = "idle"
    /\ PutOnSlotOf(t, u) /\ thr[u].Prior = NoEntry /\ thr[u].pc = "compare"
    /\ thr[t].ret = Some(thr[u].Result)

\* The contents of two store calls are identical: the same data and refs to
\* objects of the same digests.
SameContent(s, p, s2, q) ==
  /\ p.Data = q.Data
  /\ Len(p.Refs) = Len(q.Refs)
  /\ \A j \in 1..Len(p.Refs) :
       ObjectStore_getID(Nodes[s], p.Refs[j]) = ObjectStore_getID(Nodes[s2], q.Refs[j])

\* C12: stores of identical (refs, data) return refs of equal ids, whether in
\* one store or in two; a store holds one copy of each object, the id of a
\* stored object is the hash of its content, and a repeated store leaves the
\* store as it was.
C12_ContentAddressing ==
  /\ [](\A s \in Stores, s2 \in Stores : \A p \in Stored[s], q \in Stored[s2] :
          SameContent(s, p, s2, q) =>
            /\ ObjectStore_getID(Nodes[s], p.Ref.InternalRef)
                 = ObjectStore_getID(Nodes[s2], q.Ref.InternalRef)
            /\ s = s2 => p.Ref = q.Ref)
  /\ [](\A s \in Stores : \A i \in 1..Len(Nodes[s]), j \in 1..Len(Nodes[s]) :
          ObjectStore_getID(Nodes[s], i) = ObjectStore_getID(Nodes[s], j) => i = j)
  /\ [](\A s \in Stores : \A p \in Stored[s] :
          /\ p.Ref \in RefsOf(s)
          /\ Nodes[s][p.Ref.InternalRef] = [Refs |-> p.Refs, Data |-> p.Data]
          /\ p.ID = ObjectStore_getID(Nodes[s], p.Ref.InternalRef))
  /\ [][(client'.op = "store" /\ Stored' = Stored) => Nodes' = Nodes]_vars

\* The object of data "1" was stored in both stores, and one store holds an
\* object with a ref.
C12_Witness ==
  /\ \E p \in Stored["CAS1"], q \in Stored["CAS2"] :
       SameContent("CAS1", p, "CAS2", q) /\ p.Data = <<"1">>
  /\ \E s \in Stores : \E p \in Stored[s] : p.Refs # <<>>
  /\ client.op = "store"

C14_CrossStoreRejected ==
  Checks =>
    /\ client.op = "getInternalRef" =>
         IF client.Ref.CAS # client.CAS
           THEN client.ret.kind = "Abort"
           ELSE client.ret = Value(client.Ref.InternalRef)
    /\ client.op = "equals" =>
         IF client.LHS.CAS # client.RHS.CAS
           THEN client.ret.kind = "Abort"
           ELSE client.ret = Value(client.LHS = client.RHS)

\* A ref of one store was extracted for the other, in a build with the
\* checks, and the ref names an object the other store holds too.
C14_Witness ==
  /\ Checks
  /\ client.op = "getInternalRef" /\ client.Ref.CAS # client.CAS
  /\ client.Ref.InternalRef <= Len(Nodes[client.CAS])
  /\ client.ret.kind = "Abort"

\* The blob of data Bytes: an object without refs.
Blob(Bytes) == [Refs |-> <<>>, Data |-> Bytes]

\* A step is the keep of file f that returned success.
KeepStep(f) ==
  /\ Files[f] # NoFile /\ Files'[f] = NoFile
  /\ out'.op = "keep" /\ out'.ret = Success

\* C15: a keep that succeeds appends to the refs of the backend exactly the
\* ref of a blob of the name and the ref of a blob of the bytes, in that
\* order, both held by the store; the name is the kind of the first mapping
\* of the file's path at the time of keep, and the path itself without one.
C15_KeepAppendsNameAndBytes ==
  [][\A f \in 1..MaxFiles :
       KeepStep(f) =>
         \E n \in RefsOf(OutCAS)', b \in RefsOf(OutCAS)' :
           /\ Impl'.Refs = Impl.Refs \o <<n, b>>
           /\ Impl'.KindMaps = Impl.KindMaps
           /\ Nodes'[OutCAS][n.InternalRef]
                = Blob(ExpectedName(Impl.KindMaps, Files[f].Path))
           /\ Nodes'[OutCAS][b.InternalRef] = Blob(Files[f].Bytes)
           /\ \A i \in 1..Len(Nodes[OutCAS]) : Nodes'[OutCAS][i] = Nodes[OutCAS][i]
           /\ \A i \in (Len(Nodes[OutCAS]) + 1)..Len(Nodes'[OutCAS]) :
                i \in {n.InternalRef, b.InternalRef}]_vars

\* A file whose path has two mappings was kept with bytes written to it: its
\* name is the kind of the first mapping, not the path and not the second.
C15_Witness ==
  /\ out.op = "keep" /\ out.ret = Success
  /\ Len(Impl.KindMaps) = 2
  /\ Impl.KindMaps[1].Path = Impl.KindMaps[2].Path
  /\ Impl.KindMaps[1].Kind # Impl.KindMaps[2].Kind
  /\ Len(Impl.Refs) = 2
  /\ Nodes[OutCAS][Impl.Refs[1].InternalRef] = Blob(Impl.KindMaps[1].Kind)
  /\ Nodes[OutCAS][Impl.Refs[2].InternalRef] = Blob(<<"x">>)

\* The refs of the object at ref Proxy are the name and the object of each
\* of the entries from + 1 .. Len(Kept) of Kept, in order.
RefsAre(Proxy, from) ==
  LET Refs == Nodes[OutCAS][Proxy.InternalRef].Refs
      n == Len(Kept) - from
  IN /\ Len(Refs) = 2 * n
     /\ \A k \in 1..n :
          LET e == Kept[from + k]
          IN /\ Nodes[OutCAS][Refs[2 * k - 1]] = Blob(e.Name)
             /\ IF e.kind = "file"
                  THEN Nodes[OutCAS][Refs[2 * k]] = Blob(e.Bytes)
                  ELSE Refs[2 * k] = e.Object.InternalRef

\* getCASProxy was the last call on the backend and returned an object.
ProxyReturned == out.op = "getCASProxy" /\ out.ret.kind = "Value"

\* C16 as stated: the refs of the object getCASProxy returns are the pairs of
\* all the files kept and objects added so far.
C16_ProxyHoldsAllKept ==
  ProxyReturned =>
    /\ Nodes[OutCAS][out.ret.value.InternalRef].Data = <<>>
    /\ RefsAre(out.ret.value, 0)

\* C16, amended: the refs of the object getCASProxy returns are the pairs of
\* the files kept and objects added since the previous getCASProxy, in
\* order; its data is empty; without any file kept or object added since, it
\* is the object with no refs and empty data.
C16_ProxyHoldsKeptSinceLast ==
  ProxyReturned =>
    /\ out.ret.value \in RefsOf(OutCAS)
    /\ Nodes[OutCAS][out.ret.value.InternalRef].Data = <<>>
    /\ RefsAre(out.ret.value, out.From)
    /\ (Len(Kept) = out.From \/ Impl = NoImpl)
         => Nodes[OutCAS][out.ret.value.InternalRef] = Blob(<<>>)

\* A file was kept and returned by a first getCASProxy; an object was added
\* then, and a second getCASProxy returned the pair of the object alone.
C16_Witness ==
  /\ ProxyReturned /\ out.From = 1
  /\ Len(Kept) = 2 /\ Kept[1].kind = "file" /\ Kept[2].kind = "object"
  /\ Len(Nodes[OutCAS][out.ret.value.InternalRef].Refs) = 2

\* The action cache of the jobs has an entry for Key.
Cached(Key) == \E e \in ActionCache : e.Key = Key

\* Every store keeps the objects it holds, at their refs.
StoreGrows ==
  \A s \in Stores :
    /\ Len(Nodes'[s]) >= Len(Nodes[s])
    /\ SubSeq(Nodes'[s], 1, Len(Nodes[s])) = Nodes[s]

\* C17: a compile job that fails or is killed never updates the action
\* cache: the cache has an entry for a key only if the compilation of some
\* job with that key returned success, a step that changes the cache is the
\* put of a job whose compilation returned success, and every step leaves
\* the objects of the store in place.
C17_FailedJobNeverCached ==
  /\ [](\A e \in ActionCache : e.Key \in Succeeded)
  /\ [][/\ ActionCache' # ActionCache =>
             /\ job.pc = "put" /\ job.Success /\ job'.pc # "aborted"
             /\ ActionCache' = ActionCache \cup
                  {[Key |-> job.ResultCacheKey.value,
                    Value |-> ObjectStore_getID(Nodes[OutCAS],
                                                job.Result.value.InternalRef)]}
          /\ StoreGrows]_vars

\* C17 witness: a caching job ran the frontend, the compilation failed, the
\* job returned 1 and its key has no entry, while the job before it cached
\* another key.
C17_Witness ==
  /\ job.pc = "done"
  /\ job.CacheCompileJob
  /\ job.Executed = 1
  /\ ~job.Success
  /\ job.Status = Some(1)
  /\ ~Cached(job.ResultCacheKey.value)
  /\ ActionCache # {}

\* The job ran the frontend after a miss, the compilation returned success,
\* and cc1_main has returned.
ComputedAndFinished ==
  /\ job.pc = "done"
  /\ job.CacheCompileJob
  /\ ~job.Hit
  /\ job.Executed = 1
  /\ job.Success

\* The files a hit on the tree ResultID writes for the CompileJobCache j.
HitWrites(j, ResultID) ==
  LET Tree == Nodes[OutCAS][ResultID.InternalRef]
  IN ReplayOutputs(j, Nodes[OutCAS], Nodes[OutCAS][TreeLookup(Tree, "outputs")].Refs, 1)

\* C18: after a successful compilation on a miss, the finalize step has put
\* the id of the tree under the key of the job, and its replay from the
\* tree just computed has opened the tree and written every named output
\* with a non-empty resolved path to that path, exactly as a hit would.
C18_FinalizeReplaysOutputs ==
  ComputedAndFinished =>
    /\ [Key |-> job.ResultCacheKey.value,
        Value |-> ObjectStore_getID(Nodes[OutCAS], job.Result.value.InternalRef)]
         \in ActionCache
    /\ job.Replay.called
    /\ job.Replay.JustComputedResult
    /\ job.Replay.Opened
    /\ job.Replay.Writes = HitWrites(job, job.Result.value)

\* C19: when a caching job has returned 0 and a later job derives the same
\* key, the lookup of the later job is a hit: it emits the cache-hit remark
\* for the key and returns 0 from tryReplayCachedResult; a job that hit has
\* never run the frontend.
C19_SecondJobHits ==
  /\ [][(/\ job.pc = "tryReplayCachedResult"
          /\ job.CacheCompileJob
          /\ createCompileJobCacheKey(job.Invocation) \in Completed
          /\ job'.pc # "aborted"
          /\ job'.ResultCacheKey # None)
         => /\ job'.Hit
            /\ job'.Remarks =
                 <<(<<"cache hit", createCompileJobCacheKey(job.Invocation)>>)>>
            /\ job'.pc = "done"
            /\ job'.Status = Some(0)
            /\ job'.Executed = 0]_vars
  /\ [](job.pc \in {"idle", "initialize"} \/ (job.Hit => job.Executed = 0))

\* C19 witness: the second job hit on a key an earlier job compiled and
\* returned 0 for; it has returned without running the frontend.
C19_Witness ==
  /\ Jobs = 2
  /\ job.pc = "done"
  /\ job.Hit
  /\ job.Executed = 0
  /\ job.Status = Some(0)
  /\ job.ResultCacheKey.value \in Succeeded
  /\ job.Remarks = <<(<<"cache hit", job.ResultCacheKey.value>>)>>

\* The job has returned from a hit.
HitAndFinished == job.pc = "done" /\ job.CacheCompileJob /\ job.Hit

\* What the job that put the entry of Key had captured and teed.
PopulatingRun(Key) == CHOOSE p \in Populated : p.Key = Key

\* The path the CompileJobCache j resolves the output name Name to.
ResolvedPath(j, Name) ==
  IF Name = MainOutputKindName THEN j.OutputFile
  ELSE IF Name = SerializedDiagnosticsKindName THEN j.SerialDiagsFile
  ELSE IF Name = DependenciesOutputKindName THEN j.DependenciesFile
  ELSE Name

\* The outputs of C other than the dependencies.
NotDependencies(C) ==
  LET Test(c) == c.Name # DependenciesOutputKindName
  IN SelectSeq(C, Test)

\* The outputs of C that the CompileJobCache j resolves to a non-empty path,
\* with that path.
Requested(j, C) ==
  LET Test(c) == ResolvedPath(j, c.Name) # <<>>
      R == SelectSeq(C, Test)
  IN [i \in 1..Len(R) |-> [Name |-> R[i].Name,
                            Path |-> ResolvedPath(j, R[i].Name),
                            Bytes |-> R[i].Bytes]]

\* C20: on a hit, the files written for the outputs other than the
\* dependencies are, in order, the outputs the populating job captured under
\* their names, each at the path the name resolves to for this job and with
\* the bytes captured, skipping the names that resolve to the empty path; the
\* last bytes written to a path are on disk; the text printed to stderr is
\* the text teed into ResultDiags by the populating job.
C20_ReplayIsByteFaithful ==
  HitAndFinished =>
    LET Run == PopulatingRun(job.ResultCacheKey.value)
        Written == NotDependencies(job.Replay.Writes)
    IN /\ job.Replay.Opened
       /\ Written = Requested(job, NotDependencies(Run.Captured))
       /\ \A i \in 1..Len(Written) :
            (\A k \in (i + 1)..Len(job.Replay.Writes) :
               job.Replay.Writes[k].Path # Written[i].Path)
            => [Path |-> Written[i].Path, Bytes |-> Written[i].Bytes] \in Disk
       /\ job.Replay.Printed = Run.ResultDiags
       /\ job.Stderr = Run.ResultDiags

\* C20 witness: a hit of a job that asks for the main output at b.o and for
\* the serialized diagnostics, on a result whose job wrote the main output to
\* a.o, kept an output under its own path and printed a warning.
C20_Witness ==
  /\ HitAndFinished
  /\ job.OutputFile = <<"b.o">>
  /\ [Path |-> <<"a.o">>, Bytes |-> ObjectBytes("s2")] \in Disk
  /\ [Path |-> <<"b.o">>, Bytes |-> ObjectBytes("s2")] \in Disk
  /\ [Path |-> <<"a.dwo">>, Bytes |-> <<"dwo", "s2">>] \in Disk
  /\ [Path |-> <<"a.dia">>, Bytes |-> SerializedDiagnostics("s2", TRUE)] \in Disk
  /\ Len(NotDependencies(job.Replay.Writes)) = 3
  /\ job.Stderr = <<"warning", "s2">>

\* The tree the action cache binds Key to, as a ref of the store.
CachedTree(Key) ==
  LET Hash == (CHOOSE e \in ActionCache : e.Key = Key).Value
  IN ObjectRef(OutCAS, lookup(Nodes[OutCAS], Hash, 1))

\* The (name, bytes) pairs of the outputs object of the tree ResultID: the
\* data of the name and the internal ref of the bytes, in order.
OutputPairs(ResultID) ==
  LET table == Nodes[OutCAS]
      Tree == table[ResultID.InternalRef]
      Refs == table[TreeLookup(Tree, "outputs")].Refs
  IN [i \in 1..(Len(Refs) \div 2) |->
        [Name |-> table[Refs[2 * i - 1]].Data, Bytes |-> Refs[2 * i]]]

\* The names and paths of the writes W, in order.
NamesAndPaths(W) == [i \in 1..Len(W) |-> [Name |-> W[i].Name, Path |-> W[i].Path]]

\* C21: on a hit, the files written are, in order, one per pair of the
\* outputs object whose resolved path is not empty, at the resolved path: the
\* path this invocation gave for the kind when the data of the name is
\* <output>, <serial-diags> or <dependencies>, else the data of the name; a
\* pair whose resolved path is empty writes no file.
C21_ReplayResolvesNames ==
  HitAndFinished =>
    LET Pairs == OutputPairs(CachedTree(job.ResultCacheKey.value))
        W == job.Replay.Writes
    IN /\ NamesAndPaths(W) = NamesAndPaths(Requested(job, Pairs))
       /\ Len(W) = Cardinality({i \in 1..Len(Pairs) :
                                 ResolvedPath(job, Pairs[i].Name) # <<>>})
       /\ \A i \in 1..Len(W) : W[i].Path # <<>>
       /\ \A i \in 1..Len(W) : \E e \in Disk : e.Path = W[i].Path

\* C21 witness: a hit whose outputs object has a pair named <output>,
\* written to the b.o of this invocation, a pair named a.dwo, written to
\* a.dwo, a pair named <dependencies>, written to a.d, and a pair named
\* <serial-diags> that is skipped because this invocation names no file.
C21_Witness ==
  /\ HitAndFinished
  /\ job.OutputFile = <<"b.o">>
  /\ job.SerialDiagsFile = <<>>
  /\ LET Pairs == OutputPairs(CachedTree(job.ResultCacheKey.value))
     IN /\ Len(Pairs) = 4
        /\ \E i \in 1..Len(Pairs) : Pairs[i].Name = SerializedDiagnosticsKindName
  /\ NamesAndPaths(job.Replay.Writes) =
       <<[Name |-> MainOutputKindName, Path |-> <<"b.o">>],
         [Name |-> <<"a.dwo">>, Path |-> <<"a.dwo">>],
         [Name |-> DependenciesOutputKindName, Path |-> <<"a.d">>]>>
  /\ [Path |-> <<"a.o">>, Bytes |-> ObjectBytes("s2")] \in Disk

\* The pairs of P named <serial-diags>.
SerialDiagsPairs(P) ==
  {i \in 1..Len(P) : P[i].Name = SerializedDiagnosticsKindName}

\* C22: every tree the action cache binds a key to has exactly one pair
\* named <serial-diags> in its outputs object, whether the job that put it
\* asked for a serialized diagnostics file or not; a hit of a job that asks
\* for the file writes the bytes of that pair to it, and a hit of a job that
\* does not writes no file for the pair.
C22_SerialDiagsAlwaysInTree ==
  /\ \A e \in ActionCache :
       Cardinality(SerialDiagsPairs(OutputPairs(CachedTree(e.Key)))) = 1
  /\ HitAndFinished =>
       LET Pairs == OutputPairs(CachedTree(job.ResultCacheKey.value))
           p == Pairs[CHOOSE i \in SerialDiagsPairs(Pairs) : TRUE]
           W == {i \in 1..Len(job.Replay.Writes) :
                   job.Replay.Writes[i].Name = SerializedDiagnosticsKindName}
       IN IF job.SerialDiagsFile = <<>>
            THEN W = {}
            ELSE /\ Cardinality(W) = 1
                 /\ \A i \in W :
                      /\ job.Replay.Writes[i].Path = job.SerialDiagsFile
                      /\ job.Replay.Writes[i].Bytes = Nodes[OutCAS][p.Bytes].Data
                 /\ [Path |-> job.SerialDiagsFile,
                     Bytes |-> Nodes[OutCAS][p.Bytes].Data] \in Disk

\* C22 witness: a job that asks for the serialized diagnostics file hits on
\* a tree put by a job that did not ask for one, and the file is on disk.
C22_Witness ==
  /\ HitAndFinished
  /\ job.SerialDiagsFile = <<"a.dia">>
  /\ PopulatingRun(job.ResultCacheKey.value).Invocation.DiagnosticSerializationFile
       = <<>>
  /\ [Path |-> <<"a.dia">>,
      Bytes |-> SerializedDiagnostics(job.Invocation.Src, TRUE)] \in Disk

\* The action cache binds Key to a value the store does not hold.
Dangling(Key) ==
  \E e \in ActionCache :
    /\ e.Key = Key
    /\ \A i \in 1..Len(Nodes[OutCAS]) : ObjectStore_getID(Nodes[OutCAS], i) # e.Value

ResultStored(table, j) ==
  /\ j.Result # None
  /\ j.Result.value.InternalRef \in 1..Len(table)
  /\ LET Tree == table[j.Result.value.InternalRef]
     IN /\ Tree.Data = <<"outputs", "stderr">>
        /\ Len(Tree.Refs) = 2
        /\ table[Tree.Refs[2]].Data = j.ResultDiags
        /\ table[Tree.Refs[1]].Data = <<>>
        /\ \E i \in 1..Len(table[Tree.Refs[1]].Refs) :
             /\ i % 2 = 1
             /\ table[table[Tree.Refs[1]].Refs[i]].Data =
                  SerializedDiagnosticsKindName

\* The cache binds the key of the CompileJobCache j to its result.
ResultBound(cache, table, j) ==
  [Key |-> j.ResultCacheKey.value,
   Value |-> ObjectStore_getID(table, j.Result.value.InternalRef)] \in cache

\* C24: after a successful compilation on a miss, the job goes from storing
\* the objects of the result to the put only with the whole result stored,
\* and from the put to the replay only with its key bound to its tree; when
\* a store fails, or the put fails or finds the key bound to another value,
\* the job ends with a fatal error, without a status of cc1_main and without
\* changing the cache, and it never returns afterwards.
C24_FinalizeErrorsAreFatal ==
  /\ [][(job.pc = "store" /\ job'.pc # "aborted") =>
          IF ResultStored(Nodes'[OutCAS], job')
            THEN job'.pc = "put" /\ job'.Failed = "none"
            ELSE /\ job'.pc = "fatal"
                 /\ job'.Status = None
                 /\ ActionCache' = ActionCache]_vars
  /\ [][(job.pc = "put" /\ job'.pc # "aborted") =>
          \/ /\ job'.pc = "replay"
             /\ job'.Failed = "none"
             /\ ResultBound(ActionCache', Nodes[OutCAS], job)
          \/ /\ job'.pc = "fatal"
             /\ job'.Status = None
             /\ ActionCache' = ActionCache]_vars
  /\ [][job.pc = "fatal" => job'.pc \in {"fatal", "initialize"}]_vars
  /\ []((job.pc # "idle" /\ job.pc # "fatal") => job.Failed = "none")
  /\ []((ComputedAndFinished /\ Nodes[OutCAS] # <<>>) =>
          /\ ResultStored(Nodes[OutCAS], job)
          /\ ResultBound(ActionCache, Nodes[OutCAS], job))

\* C24 witness: the put of a job that compiled after a lookup error found
\* its key bound to another value, and the job ended with a fatal error.
C24_Witness ==
  /\ job.pc = "fatal"
  /\ job.Failed = "put"
  /\ job.Success
  /\ job.Status = None
  /\ Cached(job.ResultCacheKey.value)
  /\ ~ResultBound(ActionCache, Nodes[OutCAS], job)

\* The two invocations differ at most in the paths of their outputs.
SameSemanticInputs(a, b) == a.Src = b.Src

\* C25: the key depends on the semantic inputs only.  Two invocations derive
\* the same key exactly when they differ at most in the output path, the
\* serialized-diagnostics path and the dependency-file path (for all pairs of
\* invocations, which no step changes, and for each job against the jobs
\* that put a result); a caching job
\* hits when a job with the same semantic inputs has put its result, whatever
\* the paths of the two, and misses when every result was put for other
\* semantic inputs.
C25_KeyOfSemanticInputs ==
  /\ [](Jobs = 0 =>
          \A a, b \in Invocations :
            (createCompileJobCacheKey(a) = createCompileJobCacheKey(b))
              <=> SameSemanticInputs(a, b))
  /\ [](job.pc \notin {"idle", "initialize"} =>
          \A p \in Populated :
            (createCompileJobCacheKey(p.Invocation) =
               createCompileJobCacheKey(job.Invocation))
              <=> SameSemanticInputs(p.Invocation, job.Invocation))
  /\ [][(/\ job.pc = "tryReplayCachedResult"
          /\ job.CacheCompileJob
          /\ job'.pc # "aborted"
          /\ job'.ResultCacheKey # None)
         => /\ (\E p \in Populated :
                  SameSemanticInputs(p.Invocation, job.Invocation))
                => (job'.Hit /\ job'.pc = "done" /\ job'.Executed = 0)
            /\ (\A p \in Populated :
                  ~SameSemanticInputs(p.Invocation, job.Invocation))
                => (~job'.Hit /\ job'.Lookup = "None"
                    /\ job'.Remarks =
                         <<(<<"cache miss", job'.ResultCacheKey.value>>)>>)]_vars

\* C25 witness: a job hit on the result of a job whose invocation named
\* another output path, another serialized-diagnostics path and another
\* dependency-file path, while on the same disk a result for another source
\* has been written.
C25_Witness ==
  /\ HitAndFinished
  /\ LET p == PopulatingRun(job.ResultCacheKey.value).Invocation
     IN /\ p.Src = job.Invocation.Src
        /\ p.OutputFile # job.Invocation.OutputFile
        /\ p.DiagnosticSerializationFile # job.Invocation.DiagnosticSerializationFile
        /\ p.DependencyOutputFile # job.Invocation.DependencyOutputFile

\* This step creates a service from the options (create_v1).
CreatedFromOpts ==
  /\ Len(Services') = Len(Services) + 1
  /\ Services'[Len(Services')].API = "v1"

\* The format the two variables select: include-tree, else cas-fs, else Full.
FormatOfEnv(env) ==
  IF "CLANG_CACHE_USE_INCLUDE_TREE" \in env THEN "FullIncludeTree"
  ELSE IF "CLANG_CACHE_USE_CASFS_DEPSCAN" \in env THEN "FullTree"
  ELSE "Full"

\* C26, as stated: a service created from the options uses FullIncludeTree
\* when CLANG_CACHE_USE_INCLUDE_TREE is set, FullTree when
\* CLANG_CACHE_USE_CASFS_DEPSCAN is set, and Full when neither is set,
\* whatever the options hold.
C26_FormatFollowsEnvironment ==
  [][CreatedFromOpts =>
       Services'[Len(Services')].Format = FormatOfEnv(Env)]_vars

\* C26, amended: the two variables select the format only when the
\* configured format is Full and the options hold both an object store and an
\* action cache, CLANG_CACHE_USE_INCLUDE_TREE being tested first; in every
\* other case the service uses the configured format, whatever is set.
C26_FormatOfConfiguredService ==
  [][CreatedFromOpts =>
       Services'[Len(Services')].Format =
         IF /\ Opts.ConfiguredFormat = "Full"
            /\ Opts.CAS # NullDB
            /\ Opts.Cache # NullDB
           THEN FormatOfEnv(Env)
         ELSE Opts.ConfiguredFormat]_vars

\* Both variables are set and a service created from options with both
\* databases uses FullIncludeTree, and another one created without an action
\* cache uses Full.
C26_Witness ==
  /\ Env = EnvVars
  /\ \E i \in 1..Len(Services) :
       /\ Services[i].API = "v1"
       /\ Services[i].Format = "FullIncludeTree"
  /\ \E i \in 1..Len(Services) :
       /\ Services[i].API = "v1"
       /\ Services[i].Cache = NullDB
       /\ Services[i].Format = "Full"

\* The functions marked required in the table that Lib does not export.
MissingRequired(Lib) ==
  {PluginAPI_functions[I].name :
     I \in {J \in 1..Len(PluginAPI_functions) :
              /\ PluginAPI_functions[J].required
              /\ PluginAPI_functions[J].name \in Lib.Missing}}

\* C27: when the library lacks a function marked required, the load returns
\* an error that names one of the missing required symbols, no plugin
\* function is called and no context with a CAS handle is created; when it
\* lacks only optional functions the load is not failed by that: it calls
\* the plugin, and it creates a context unless the plugin reports an error.
C27_MissingRequiredFailsLoad ==
  [][Answer'.op = "create" /\ Answer'.Lib.Valid =>
       IF MissingRequired(Answer'.Lib) # {}
         THEN /\ Answer'.kind = "Error"
              /\ \E name \in MissingRequired(Answer'.Lib) :
                   Answer'.what = <<"error loading", Answer'.Lib.Path,
                                    "failed symbol", "llcas_", name>>
              /\ Called' = <<>>
              /\ Contexts' = Contexts
       ELSE /\ Called' # <<>>
            /\ \/ /\ Answer'.kind = "Some"
                  /\ Len(Contexts') = Len(Contexts) + 1
                  /\ Contexts'[Len(Contexts')].Functions
                       \cap Answer'.Lib.Missing = {}
               \/ /\ Answer'.kind = "Error"
                  /\ Answer'.what = <<PluginMessage>>
                  /\ Contexts' = Contexts]_vars

\* A load of a library without an optional function has created a context,
\* and the load of a library that lacks a required and an optional function
\* has then failed, naming the required one.
C27_Witness ==
  /\ Len(Contexts) = 1
  /\ "cas_get_ondisk_size" \notin Contexts[1].Functions
  /\ Answer.op = "create"
  /\ Answer.kind = "Error"
  /\ Answer.Lib.Missing = {"cas_create", "cas_get_ondisk_size"}
  /\ Answer.what = <<"error loading", "plugin.dylib", "failed symbol",
                     "llcas_", "cas_create">>
  /\ Called = <<>>

\* C28: a getMap or putMap whose ObjectStore is not a store of the action
\* cache's own plugin context returns an invalid-argument error, calls no
\* plugin function and leaves the plugin's cache and maps as they were.
C28_ForeignStoreIsInvalidArgument ==
  [][/\ Answer'.op \in {"getMap", "putMap"}
     /\ Answer'.CAS # Answer'.Ctx
     => /\ Answer'.kind = "Error"
        /\ Answer'.what[1] = "invalid_argument"
        /\ Called' = <<>>
        /\ Plugin' = Plugin]_vars

\* A putMap on the cache of the first context with a store of the second
\* context has returned the error, the key being bound to a map already.
C28_Witness ==
  /\ Answer.op = "putMap"
  /\ Answer.Ctx = 1
  /\ Answer.CAS = 2
  /\ Answer.kind = "Error"
  /\ Answer.what[1] = "invalid_argument"
  /\ Called = <<>>
  /\ MapValues("k1") # {}

\* The lookups of the plugin databases.
PluginLookups == {"getImpl", "getMap", "getValueAsync", "getReference"}

\* The last call was a lookup that the plugin answered with c_result.
Looked(c_result) ==
  /\ Answer.op \in PluginLookups
  /\ Answer.c_result = c_result

\* C29, as stated: in each of the four lookups SUCCESS yields Some, NOTFOUND
\* yields None and ERROR yields a returned error with the plugin's message.
C29_ThreeResultsEverywhere ==
  /\ Looked("LLCAS_LOOKUP_RESULT_SUCCESS") => Answer.kind = "Some"
  /\ Looked("LLCAS_LOOKUP_RESULT_NOTFOUND") => Answer.kind = "None"
  /\ Looked("LLCAS_LOOKUP_RESULT_ERROR") =>
       /\ Answer.kind = "Error"
       /\ Answer.what = <<PluginMessage>>

\* C29, amended: SUCCESS yields Some and NOTFOUND yields None in each of the
\* four lookups; ERROR yields a returned error with the plugin's message in
\* getImpl, getMap and the asynchronous entry lookup, and in getReference,
\* which has no error to return, it ends the process through
\* report_fatal_error with the plugin's message.
C29_ThreeResultsGetReferenceFatal ==
  /\ Looked("LLCAS_LOOKUP_RESULT_SUCCESS") => Answer.kind = "Some"
  /\ Looked("LLCAS_LOOKUP_RESULT_NOTFOUND") => Answer.kind = "None"
  /\ Looked("LLCAS_LOOKUP_RESULT_ERROR") =>
       /\ Answer.kind = IF Answer.op = "getReference" THEN "fatal"
                        ELSE "Error"
       /\ Answer.what = <<PluginMessage>>

\* cas_contains_object has answered ERROR for an object that is stored, and
\* getReference has ended the process.
C29_Witness ==
  /\ Looked("LLCAS_LOOKUP_RESULT_ERROR")
  /\ Answer.op = "getReference"
  /\ Answer.kind = "fatal"
  /\ Plugin.Objects # {}
  /\ Plugin.Maps # {}

\* The job caches and has derived its key.
KeyedJob ==
  /\ job.pc # "idle"
  /\ job.CacheCompileJob
  /\ job.ResultCacheKey # None

\* The job has ended: cc1_main returned or report_fatal_error ended it.
JobEnded == job.pc \in {"done", "fatal"}

\* The remarks of the job are the one remark of what the lookup yielded.
OneRemark ==
  job.Remarks =
    <<(<<(IF job.Lookup = "Some" THEN "cache hit" ELSE "cache miss"),
         job.ResultCacheKey.value>>)>>

CachedTreeHas(Name) ==
  LET Tree == Nodes[OutCAS][CachedTree(job.ResultCacheKey.value).InternalRef]
  IN \E i \in 1..Len(Tree.Data) : Tree.Data[i] = Name

\* The data of the object that tree names stderr.
CachedStderr ==
  LET Tree == Nodes[OutCAS][CachedTree(job.ResultCacheKey.value).InternalRef]
      i == CHOOSE k \in 1..Len(Tree.Data) : Tree.Data[k] = "stderr"
  IN Nodes[OutCAS][Tree.Refs[i]].Data

\* C31: a job that hits prints the data of the cached tree's stderr entry to
\* stderr, and nothing else; a hit on a tree without a stderr entry ends in
\* a fatal error with nothing printed; a replay prints only on a hit, and a
\* job that computed its result has on stderr what it streamed live, once:
\* the replay of the tree it just computed prints nothing.
C31_CachedStderrOnHitOnly ==
  job.pc # "idle" /\ job.CacheCompileJob =>
    /\ job.Hit /\ CachedTreeHas("stderr") => job.Stderr = CachedStderr
    /\ job.Hit /\ ~CachedTreeHas("stderr") =>
         /\ job.pc = "fatal"
         /\ job.Stderr = <<>>
    /\ job.Replay.Printed # <<>> => job.Hit
    /\ job.Replay.called /\ job.Replay.JustComputedResult =>
         /\ job.Replay.Printed = <<>>
         /\ job.Stderr = job.ResultDiags
         /\ job.Stderr =
              DiagnosticText(job.Invocation.Src, job.Success)
              \o SubSeq(job.Stderr,
                        Len(DiagnosticText(job.Invocation.Src, job.Success)) + 1,
                        Len(job.Stderr))
         /\ Len(job.Stderr) <=
              Len(DiagnosticText(job.Invocation.Src, job.Success)) + 2

\* A job has hit a tree that has no stderr entry and has ended in the fatal
\* error, with nothing on stderr.
C31_Witness ==
  /\ job.pc = "fatal"
  /\ job.CacheCompileJob
  /\ job.Hit
  /\ job.Failed = "replay"
  /\ ~CachedTreeHas("stderr")
  /\ job.Stderr = <<>>

\* The two compile jobs, the one on the processor first.
BothJobs == <<job, other.job>>

\* The objects of the store whose identifier is ID.
Resolving(ID) ==
  {n \in 1..Len(Nodes[OutCAS]) : ObjectStore_getID(Nodes[OutCAS], n) = ID}

\* The entry that tree n of the store names Name resolves in the store.
EntryResolves(n, Name) ==
  /\ TreeLookup(Nodes[OutCAS][n], Name) \in 1..Len(Nodes[OutCAS])

\* C32: in every reachable state of two compile jobs that share the store
\* and the action cache, every value of the action cache is the identifier
\* of a tree of the store whose outputs and stderr entries resolve in the
\* store; a job that is about to put, or has put, holds the reference of a
\* stored tree with both entries, and its stderr entry holds the diagnostics
\* of the job.
C32_PutAfterStore ==
  /\ \A e \in ActionCache :
       /\ Resolving(e.Value) # {}
       /\ \A n \in Resolving(e.Value) :
            /\ EntryResolves(n, "outputs")
            /\ EntryResolves(n, "stderr")
  /\ \A k \in 1..2 :
       BothJobs[k].pc \in {"put", "replay"} =>
         /\ BothJobs[k].Result # None
         /\ BothJobs[k].Result.value.InternalRef \in 1..Len(Nodes[OutCAS])
         /\ EntryResolves(BothJobs[k].Result.value.InternalRef, "outputs")
         /\ EntryResolves(BothJobs[k].Result.value.InternalRef, "stderr")
         /\ Nodes[OutCAS][TreeLookup(
              Nodes[OutCAS][BothJobs[k].Result.value.InternalRef],
              "stderr")].Data = BothJobs[k].ResultDiags

\* One job has missed, stored its tree and put it, while the other job,
\* which missed too, has stored its tree and is about to put.
C32_Witness ==
  /\ ActionCache # {}
  /\ job.pc = "replay"
  /\ ~job.Hit
  /\ other.job.pc = "put"
  /\ ~other.job.Hit
  /\ other.job.Result # job.Result

\* The identifier of the result tree that job j has stored.
ResultID(j) == ObjectStore_getID(Nodes[OutCAS], j.Result.value.InternalRef)

\* The action cache binds the key of job j to a value other than the
\* identifier of its result tree.
BoundToAnother(j) ==
  \E e \in ActionCache : e.Key = j.ResultCacheKey.value /\ e.Value # ResultID(j)

\* The action cache binds the key of job j to the identifier of its tree.
BoundToResult(j) ==
  [Key |-> j.ResultCacheKey.value, Value |-> ResultID(j)] \in ActionCache

\* The job on the processor returns from Cache->put in this step.
PutStep == job.pc = "put" /\ job'.pc # "put" /\ other' = other

\* C33: in every interleaving of two compile jobs that derive one key
\* against an empty cache, the cache never binds a key twice, an entry once
\* written is never removed or changed, and the cache is written only by a
\* put for a key that is unbound; a put of a tree whose identifier differs from the bound one
\* ends the job in the fatal error and leaves the cache as it is, every
\* other put succeeds and leaves the key bound to the tree of the job; a job
\* ended by a failed put finds the key bound to the other, first, tree.
C33_WrittenOnceNeverOverwritten ==
  /\ [](\A e1, e2 \in ActionCache : e1.Key = e2.Key => e1 = e2)
  /\ [](\A k \in 1..2 :
          /\ BothJobs[k].pc = "fatal" /\ BothJobs[k].Failed = "put" =>
               BoundToAnother(BothJobs[k])
          /\ BothJobs[k].pc = "replay" => BoundToResult(BothJobs[k]))
  /\ [][/\ ActionCache \subseteq ActionCache'
        /\ ActionCache' # ActionCache =>
             /\ job.pc = "put"
             /\ \A e \in ActionCache : e.Key # job.ResultCacheKey.value
        /\ PutStep =>
             IF BoundToAnother(job)
               THEN /\ job'.pc = "fatal"
                    /\ job'.Failed = "put"
                    /\ ActionCache' = ActionCache
               ELSE /\ job'.pc = "replay"
                    /\ ActionCache' =
                         {[Key |-> job.ResultCacheKey.value,
                           Value |-> ResultID(job)]}]_vars

\* Both jobs have missed and run the frontend; the first has put its tree
\* and returned, the second, whose tree differs, has ended in the fatal
\* error of its put, and the cache holds the tree of the first.
C33_Witness ==
  /\ job.pc = "fatal"
  /\ job.Failed = "put"
  /\ job.Executed = 1
  /\ other.job.pc = "done"
  /\ other.job.Executed = 1
  /\ ~other.job.Hit
  /\ job.ResultCacheKey = other.job.ResultCacheKey
  /\ BoundToResult(other.job)
  /\ ~BoundToResult(job)

\* The key that every job around the wipe derives.
RecoveryKey == createCompileJobCacheKey(CHOOSE i \in RecoveryInvocations : TRUE)

\* A get for the key of the jobs around the wipe returns a reference.
Resolvable ==
  ActionCache_get(ActionCache, Nodes[OutCAS], RecoveryKey).kind = "Some"

\* A put has failed as poisoned against the stale value: the value of the
\* key is dangling, and the store holds the result tree of a job that has
\* returned from its put.
PoisonedByStale ==
  /\ Dangling(RecoveryKey)
  /\ job.pc # "put"
  /\ \E n \in 1..Len(Nodes[OutCAS]) :
       Nodes[OutCAS][n].Data = <<"outputs", "stderr">>

AccumulatedRefs == makeImpl(Impl).Refs

\* Refs i and i + 1 of the accumulated list are the name and the object of
\* the kept file or added object they stand for: the name is an object with
\* no refs holding that name, the object holds the bytes of the file or is
\* the object that was added.
IsPair(i) ==
  LET K == Kept[Consumed + (i + 1) \div 2]
      Name == Nodes[OutCAS][AccumulatedRefs[i].InternalRef]
      Object == AccumulatedRefs[i + 1]
  IN /\ AccumulatedRefs[i] \in RefsOf(OutCAS)
     /\ Object \in RefsOf(OutCAS)
     /\ Name = [Refs |-> <<>>, Data |-> K.Name]
     /\ IF K.kind = "file"
          THEN Nodes[OutCAS][Object.InternalRef] = [Refs |-> <<>>, Data |-> K.Bytes]
          ELSE Object = K.Object

\* The last call was a keep or an addObject that returned the error of the
\* store.
StoreFailed(o) == o.op \in {"keep", "addObject"} /\ o.ret = StoreError

\* C35: after any sequence of createFile, keep, discard, addObject,
\* addKindMap and getCASProxy the accumulated ref list has even length and
\* is made of (name, object) pairs, one for each file kept and object added
\* since the last getCASProxy; a keep or addObject that returns the error of
\* the store, whether the name or the bytes failed to store, leaves the list
\* as it was, and one that succeeds appends two refs.
C35_RefsArePairs ==
  /\ [](/\ Len(AccumulatedRefs) = 2 * (Len(Kept) - Consumed)
        /\ \A i \in 1..Len(AccumulatedRefs) : i % 2 = 1 => IsPair(i))
  /\ [][/\ StoreFailed(out') => makeImpl(Impl').Refs = AccumulatedRefs
        /\ (out' # out /\ out'.op \in {"keep", "addObject"}
              /\ out'.ret = Success) =>
             /\ Len(makeImpl(Impl').Refs) = Len(AccumulatedRefs) + 2
             /\ SubSeq(makeImpl(Impl').Refs, 1, Len(AccumulatedRefs))
                  = AccumulatedRefs]_vars

\* An object was added, and then the keep of a file returned the error of
\* the store: the list still holds the one pair of the object.
C35_Witness ==
  /\ out.op = "keep"
  /\ out.ret = StoreError
  /\ Len(AccumulatedRefs) = 2
  /\ Len(Kept) = 1
  /\ Kept[1].kind = "object"
  /\ Consumed = 0
  /\ Len(Nodes[OutCAS]) > 2

\* This step is a call of getCASProxy.
ProxyStep == out'.op = "getCASProxy" /\ Files' = Files /\ Consumed' = Len(Kept)

\* C36: a getCASProxy call leaves the accumulated ref list empty, whether
\* the store returned the object or an error, and leaves the kind mappings
\* as they were; the object it returns holds the pairs of the files kept and
\* objects added since the call before and of no others, so a call with no
\* keep or addObject since the last one returns the object with no refs and
\* empty data; the list stays empty until the next keep or addObject.
C36_ProxyConsumesRefs ==
  /\ [](out.op = "getCASProxy" => AccumulatedRefs = <<>>)
  /\ [][ProxyStep =>
          /\ makeImpl(Impl').Refs = <<>>
          /\ makeImpl(Impl').KindMaps = makeImpl(Impl).KindMaps
          /\ out'.From = Consumed
          /\ out'.ret.kind = "Value" =>
               /\ Len(Nodes'[OutCAS][out'.ret.value.InternalRef].Refs)
                    = Len(AccumulatedRefs)
               /\ \A i \in 1..Len(AccumulatedRefs) :
                    Nodes'[OutCAS][out'.ret.value.InternalRef].Refs[i]
                      = AccumulatedRefs[i].InternalRef
               /\ Nodes'[OutCAS][out'.ret.value.InternalRef].Data = <<>>
               /\ Consumed = Len(Kept) =>
                    Nodes'[OutCAS][out'.ret.value.InternalRef] = Blob(<<>>)]_vars

\* With a kind mapping in the backend, a file was kept and returned by a
\* first getCASProxy, and a second getCASProxy with no keep in between has
\* returned the object with no refs: the mapping is still there.
C36_Witness ==
  /\ ProxyReturned
  /\ out.From = 1
  /\ Len(Kept) = 1
  /\ Nodes[OutCAS][out.ret.value.InternalRef] = Blob(<<>>)
  /\ Impl # NoImpl
  /\ Len(makeImpl(Impl).KindMaps) = 1
  /\ AccumulatedRefs = <<>>

\* The last call was getValueAsync, or the callback of one.
AsyncAnswer == Answer.op = "getValueAsync"

\* The name asked of the map is one of its entry names.
KnownName(a) == \E I \in 1..Len(a.Names) : a.Names[I] = a.Name

\* C37: the future of getValueAsync is given a value at most once. For a
\* name that is not an entry name of the map it holds the invalid-argument
\* error as soon as getValueAsync returns, no plugin function was called and
\* no per-call context was made. For an entry name the plugin's asynchronous
\* lookup is called with a new context and the future stays without a value
\* until the plugin calls back; the callback gives the future its one value
\* and deletes the context, once; no other step gives the future a value.
C37_FutureFulfilledOnce ==
  /\ [](AsyncAnswer =>
          /\ Answer.Fulfilled \in {0, 1}
          /\ Answer.Deleted <= Answer.CallCtx
          /\ Answer.Fulfilled = 0 <=> Answer.kind = "Pending"
          /\ ~KnownName(Answer) =>
               /\ Answer.kind = "Error"
               /\ Answer.what[1] = "invalid_argument"
               /\ Answer.Fulfilled = 1
               /\ Answer.CallCtx = 0
               /\ Answer.c_result = "none"
               /\ Called = <<>>
          /\ KnownName(Answer) =>
               /\ Answer.CallCtx = 1
               /\ Answer.Deleted = Answer.Fulfilled
               /\ Answer.kind = "Pending" =>
                    /\ Answer.c_result = "none"
                    /\ Called = <<"actioncache_map_get_entry_value_async">>
               /\ Answer.kind # "Pending" => Answer.c_result # "none")
  /\ [][(AsyncAnswer /\ Answer.kind = "Pending" /\ AsyncAnswer'
           /\ Answer' # Answer) =>
          /\ Answer'.c_result \in LookupResults(TRUE) \cup LookupResults(FALSE)
          /\ Answer'.Fulfilled = 1
          /\ Answer'.Deleted = 1
          /\ Answer'.kind \in {"Some", "None", "Error"}]_vars
  /\ [][(AsyncAnswer /\ Answer.kind # "Pending" /\ AsyncAnswer') =>
          Answer' = Answer]_vars

\* The plugin has called back with a found entry: the future holds its one
\* value, the reference of the entry, and the context is deleted.
C37_Witness ==
  /\ AsyncAnswer
  /\ KnownName(Answer)
  /\ Answer.kind = "Some"
  /\ Answer.c_result = "LLCAS_LOOKUP_RESULT_SUCCESS"
  /\ Answer.Fulfilled = 1
  /\ Answer.CallCtx = 1
  /\ Answer.Deleted = 1

\* The job was started without -fcache-compile-job.
NotCaching == job.pc # "idle" /\ ~job.Invocation.CacheCompileJob

\* C38: a job started with caching off has a controller that does nothing:
\* its caching flag is off, it takes no output path into its side channel,
\* derives no key, looks nothing up, emits no remark, installs no capturing
\* backend, replays nothing and leaves the timestamps option and the
\* invocation as they were; none of its steps changes the store or the
\* action cache; when it returns, the frontend has run exactly once and the
\* exit status is that of the frontend. In both modes a job that leaves
\* initialize has the caching flag of its invocation off, and the flag of
\* the controller is the one the invocation had; a caching job that goes on
\* has its timestamps option off.
C38_NotCachingIsInert ==
  /\ [](NotCaching =>
          /\ ~job.CacheCompileJob
          /\ job.OutputFile = <<>>
          /\ job.SerialDiagsFile = <<>>
          /\ job.DependenciesFile = <<>>
          /\ job.ResultCacheKey = None
          /\ job.Lookup = "none"
          /\ job.Remarks = <<>>
          /\ ~job.Hit
          /\ job.Result = None
          /\ job.Replay = NoReplay
          /\ job.Captured = <<>>
          /\ job.SerialDiagsOutput = None
          /\ job.DependenciesOutput = None
          /\ job.FrontendOpts.IncludeTimestamps
          /\ Impl = NoImpl
          /\ job.pc \in {"initialize", "tryReplayCachedResult",
                         "ExecuteCompilerInvocation", "finishComputedResult",
                         "done", "aborted"}
          /\ job.pc \in {"finishComputedResult", "done"} =>
               job.Executed = 1
          /\ job.pc = "done" => job.Status = Some(ExitStatus(job.Success)))
  /\ [][(NotCaching /\ job'.pc # "initialize") =>
          /\ Nodes' = Nodes
          /\ ActionCache' = ActionCache
          /\ Impl' = Impl
          /\ job'.Invocation = job.Invocation]_vars
  /\ [][(job.pc = "initialize" /\ job'.pc \notin {"initialize", "aborted"}) =>
          /\ ~job'.FrontendOpts.CacheCompileJob
          /\ job'.CacheCompileJob = job.Invocation.CacheCompileJob
          /\ job'.CacheCompileJob = job.FrontendOpts.CacheCompileJob
          /\ (job'.CacheCompileJob /\ job'.pc = "tryReplayCachedResult") =>
               ~job'.FrontendOpts.IncludeTimestamps]_vars

\* A job with caching off has run the frontend once and returned 0, with the
\* store and the action cache empty, its timestamps option still on and the
\* caching flag of its invocation off.
C38_Witness ==
  /\ NotCaching
  /\ job.pc = "done"
  /\ job.Executed = 1
  /\ job.Status = Some(0)
  /\ Nodes[OutCAS] = <<>>
  /\ ActionCache = {}
  /\ job.FrontendOpts.IncludeTimestamps
  /\ ~job.FrontendOpts.CacheCompileJob

\* The services created from options.
FromOpts == {i \in 1..Len(Services) : Services[i].API = "v1"}

\* C39: a service created from options has a format other than the
\* configured one only if the configured mode is Full, the options hold an
\* object store and an action cache, and one of the two variables is set;
\* with the mode Flat, or with one of the databases missing, its format is
\* the configured one whatever the environment; with both variables set a
\* changed format is FullIncludeTree. A service with both databases and the
\* format Full was created with neither variable set.
C39_EnvironmentNeedsFullAndDatabases ==
  /\ [](\A i \in FromOpts :
          /\ Services[i].Format \in {"Make", "Full", "FullTree",
                                     "FullIncludeTree"}
          /\ Services[i].Format \in {"FullTree", "FullIncludeTree"} =>
               /\ Services[i].CAS # NullDB
               /\ Services[i].Cache # NullDB
               /\ Env # {}
          /\ Services[i].Format = "FullTree" =>
               Env = {"CLANG_CACHE_USE_CASFS_DEPSCAN"}
          /\ (Services[i].Format = "Full" /\ Services[i].CAS # NullDB
                /\ Services[i].Cache # NullDB) => Env = {})
  /\ [][CreatedFromOpts =>
          /\ Services'[Len(Services')].Format # Opts.ConfiguredFormat =>
               /\ Opts.ConfiguredFormat = "Full"
               /\ Opts.CAS # NullDB
               /\ Opts.Cache # NullDB
               /\ Env # {}
               /\ Env = EnvVars =>
                    Services'[Len(Services')].Format = "FullIncludeTree"
          /\ (Opts.ConfiguredFormat = "Make" \/ Opts.CAS = NullDB
                \/ Opts.Cache = NullDB) =>
               Services'[Len(Services')].Format = Opts.ConfiguredFormat]_vars

\* With both variables set, a service created in Flat mode from options with
\* both databases has the format Make, and one created in Full mode from
\* options without an object store has the format Full.
C39_Witness ==
  /\ Env = EnvVars
  /\ \E i \in FromOpts :
       /\ Services[i].Format = "Make"
       /\ Services[i].CAS # NullDB
       /\ Services[i].Cache # NullDB
  /\ \E i \in FromOpts :
       /\ Services[i].Format = "Full"
       /\ Services[i].CAS = NullDB

\* A getFileDependencies call has returned.
DepsReturned == Deps.api # "none" /\ Deps.Result # "abort"

\* The input of the call is one the entry points reject.
BadInput ==
  \/ Deps.W = 0
  \/ Deps.argc < 2
  \/ ~Deps.argvOK
  \/ Deps.Format \notin {"Full", "FullTree", "FullIncludeTree"}
  \/ Deps.api \in {"v4", "v5"} /\ ~Deps.OutOK

\* C40: a getFileDependencies call returns CXError_InvalidArguments exactly
\* when the worker is null, argc is less than 2, argv is null, the format of
\* the worker is not Full, FullTree or FullIncludeTree, or, for v4 and v5,
\* Out is null, and then nothing was scanned; after every return other than
\* success what Out points to is null (for v3: the pointer returned), if Out
\* is not null itself, and neither the module-discovered callback nor the
\* result callback was called; after a success the result callback was
\* called exactly once, the module-discovered callback at most once, and Out
\* points to the list.
C40_BadInputRejectedBeforeScan ==
  DepsReturned =>
    /\ Deps.Result \in {"CXError_InvalidArguments", "CXError_Failure",
                        "CXError_Success"}
    /\ BadInput <=> Deps.Result = "CXError_InvalidArguments"
    /\ BadInput => Deps.Scans = 0
    /\ Deps.Result # "CXError_Success" =>
         /\ Deps.Out = IF Deps.OutOK THEN "null" ELSE "nullptr"
         /\ Deps.MDC = 0
         /\ Deps.HandleTUDeps = 0
    /\ Deps.Result = "CXError_Failure" => Deps.Scans = 1
    /\ Deps.Result = "CXError_Success" =>
         /\ Deps.HandleTUDeps = 1
         /\ Deps.MDC \in {0, 1}
         /\ Deps.Out = "list"

\* A v4 call with good arguments on a worker whose service has the format
\* Make has returned CXError_InvalidArguments, with Out pointing to null and
\* nothing scanned.
C40_Witness ==
  /\ DepsReturned
  /\ Deps.api = "v4"
  /\ Deps.W > 0
  /\ Deps.argc = 2
  /\ Deps.argvOK
  /\ Deps.OutOK
  /\ Deps.Format = "Make"
  /\ Deps.Result = "CXError_InvalidArguments"
  /\ Deps.Out = "null"
  /\ Deps.Scans = 0
====
